---- MODULE Spec2Model ----
(***************************************************************************)
(* Model of the visual detection pipeline of maple-bot                     *)
(* (backend/src/detect.rs) and of its fixed-size array                     *)
(* (backend/src/array.rs).                                                 *)
(*                                                                         *)
(* Each part is modelled with a specification of its own over the          *)
(* variables of this module:                                               *)
(*   Spec        the template matcher (detect_template_multiple,           *)
(*               detect_template_single, match_one)                        *)
(*   SpecCalib   the calibration flags of detect_player and                *)
(*               detect_player_health_bars, sequential callers             *)
(*   SpecRace    concurrent callers of detect_player                       *)
(*   SpecMinimap the minimap locator (detect_minimap)                      *)
(*   SpecMobs    detect_mobs and its to_minimap_coordinate                 *)
(*   SpecText    extract_text_bboxes                                       *)
(*   SpecRunes   detect_rune_arrows                                        *)
(*   SpecRemap   remap_from_yolo                                           *)
(*   SpecHealth  detect_player_health                                      *)
(*   SpecPortals detect_minimap_portals                                    *)
(*   SpecLazy    the LazyLock statics of the detectors                     *)
(*   SpecRecognizer  the text recognizer behind its mutex (extract_texts)  *)
(*   SpecArray   Array<T, N>                                               *)
(*   SpecBuffs   detect_player_buff                                        *)
(*   SpecCached  CachedDetector and its derived representations            *)
(*                                                                         *)
(* Scores, confidences and thresholds are floats in the source; they are   *)
(* integers here (hundredths for thresholds and confidences, small levels  *)
(* for the score map), compared exactly as the source compares them.       *)
(***************************************************************************)
EXTENDS Integers, Sequences, FiniteSets, TLC

VARIABLES
    tmIn,       \* inputs of one template-matcher call
    tmOut,      \* <<outcome>> of detect_template_multiple on tmIn, <<>> before
    tmSingle,   \* <<result>> of detect_template_single on tmIn, <<>> before
    WAS_IDEAL_RATIO,      \* the static AtomicBool of detect_player
    HP_SEPARATOR_TYPE_1,  \* the static AtomicBool of detect_player_health_bars
    calLog,     \* the detector calls made so far, one record per call
    rcScale,    \* TRUE when the client shows the ideal-ratio player icon
    rcPc,       \* per concurrent caller: where it is in detect_player
    rcWas,      \* per concurrent caller: the local was_ideal_ratio
    rcOk,       \* per concurrent caller: result.is_ok() of its attempt
    rcCalls,    \* per concurrent caller: calls completed
    rcFails,    \* per concurrent caller: calls that returned an error
    mmPc,       \* detect_minimap: the step the call is at
    mmThr,      \* detect_minimap: the caller's border_threshold
    mmBbox,     \* <<bbox>>: the remapped network candidate, <<>> if none
    mmExpanded, \* <<rect>>: expand_bbox(bbox) once the crop was taken
    mmContour,  \* <<rect>>: the validated contour, in frame coordinates
    mmVote,     \* <<[cols, tally, count]>>: the border vote
    mmResult,   \* [status, rect]: how the call ended
    mob,        \* detect_mobs: [in, out] of one call
    txt,        \* extract_text_bboxes: [in, out] of one call
    rune,       \* detect_rune_arrows: [in, out] of one call
    rmp,        \* remap_from_yolo: [in, out] of one call
    hp,         \* detect_player_health: [in, out] of one call
    portal,     \* detect_minimap_portals: [in, out] of one call
    lzState,    \* a LazyLock static: its Once state
    lzPc,       \* per caller: where it is in the dereference of the static
    lzRuns,     \* the number of times the static's constructor has started
    ocMutex,    \* TEXT_RECOGNITION_MODEL: [holder, poisoned]
    ocPc,       \* per caller: where it is in detect_player_health
    ocLog,      \* the recognitions started so far, one record each
    arrInner,   \* Array::inner
    arrLen,     \* Array::len
    arrHist,    \* the operations made on the array, in order
    arrIter,    \* the iterator over the array, if one was made
    arrOther,   \* <<array>>: the clone made of the array, <<>> before
    buff,       \* detect_player_buff: [in, out] of one call
    cdCell,     \* CachedDetector: the Once state of each LazyLock field
    cdRuns,     \* per derived representation: the times it was computed
    cdPc,       \* per thread: where it is in a call on its clone
    cdFrames    \* the number of CachedDetector::new calls so far

tmVars == <<tmIn, tmOut, tmSingle>>
flagVars == <<WAS_IDEAL_RATIO, HP_SEPARATOR_TYPE_1>>
rcVars == <<rcScale, rcPc, rcWas, rcOk, rcCalls, rcFails>>

mmVars == <<mmPc, mmThr, mmBbox, mmExpanded, mmContour, mmVote, mmResult>>

pureVars == <<mob, txt, rune, rmp, hp, portal>>
lzVars == <<lzState, lzPc, lzRuns>>
ocVars == <<ocMutex, ocPc, ocLog>>
arrVars == <<arrInner, arrLen, arrHist, arrIter, arrOther>>
cdVars == <<cdCell, cdRuns, cdPc, cdFrames>>
lastVars == <<buff, cdVars>>
laterVars == <<pureVars, lzVars, ocVars, arrVars, lastVars>>
earlyVars == <<tmVars, flagVars, calLog, rcVars, mmVars>>

vars == <<tmVars, flagVars, calLog, rcVars, mmVars, laterVars>>

None == "none"

\* the parts of the model a specification does not exercise stay idle
PureIdle ==
    /\ mob = None /\ txt = None /\ rune = None
    /\ rmp = None /\ hp = None /\ portal = None

LzIdle == lzState = None /\ lzPc = None /\ lzRuns = 0

OcIdle == ocMutex = None /\ ocPc = None /\ ocLog = <<>>

ArrIdle ==
    /\ arrInner = None /\ arrLen = 0 /\ arrHist = <<>> /\ arrIter = None
    /\ arrOther = <<>>

BuffIdle == buff = None

CdIdle == cdCell = None /\ cdRuns = None /\ cdPc = None /\ cdFrames = 0

LastIdle == BuffIdle /\ CdIdle

LaterIdle == PureIdle /\ LzIdle /\ OcIdle /\ ArrIdle /\ LastIdle

Min2(a, b) == IF a <= b THEN a ELSE b
Max2(a, b) == IF a >= b THEN a ELSE b

(***************************************************************************)
(* opencv Rect and Point                                                   *)
(***************************************************************************)
Rect(x, y, w, h) == [x |-> x, y |-> y, width |-> w, height |-> h]

Pt(x, y) == [x |-> x, y |-> y]

\* Rect::from_points(pt1, pt2): x = min, y = min, size = max - min
RectFromPoints(p, q) ==
    Rect(Min2(p.x, q.x), Min2(p.y, q.y),
         Max2(p.x, q.x) - Min2(p.x, q.x), Max2(p.y, q.y) - Min2(p.y, q.y))

RectArea(r) == r.width * r.height

RectEmpty(r) == r.width <= 0 \/ r.height <= 0

\* opencv Rect & Rect: the intersection, the all-zero Rect when it is empty
RectAnd(a, b) ==
    LET x1 == Max2(a.x, b.x)
        y1 == Max2(a.y, b.y)
        x2 == Min2(a.x + a.width, b.x + b.width)
        y2 == Min2(a.y + a.height, b.y + b.height)
    IN  IF x2 - x1 <= 0 \/ y2 - y1 <= 0 \/ RectEmpty(a) \/ RectEmpty(b)
        THEN Rect(0, 0, 0, 0)
        ELSE Rect(x1, y1, x2 - x1, y2 - y1)

\* Mat::roi / Mat::roi_mut succeed only for a rectangle inside the matrix
RoiInside(r, cols, rows) ==
    /\ 0 <= r.x /\ 0 <= r.width /\ r.x + r.width <= cols
    /\ 0 <= r.y /\ 0 <= r.height /\ r.y + r.height <= rows

\* Two rectangles share a pixel
RectsOverlap(a, b) ==
    /\ a.x < b.x + b.width /\ b.x < a.x + a.width
    /\ a.y < b.y + b.height /\ b.y < a.y + a.height

(***************************************************************************)
(* Template matcher                                                        *)
(***************************************************************************)
\* Bounds of the template-matcher inputs
SrcW == 4
SrcH == 2
MaxTemplate == 2
ScoreMax == 2
MaxMatches == 2

\* Score levels: TM_CCOEFF_NORMED lies in [-1, 1]; ScoreMax stands for 1.0,
\* the score of an unmodified instance of the template, and -1 for a
\* negative correlation.
Cells(mw, mh) == (0..(mw - 1)) \X (0..(mh - 1))

\* Score maps: a background level and at most two other cells set apart
ScoreMaps(mw, mh) ==
    { [c \in Cells(mw, mh) |->
            IF c = p1 THEN s1 ELSE IF c = p2 THEN s2 ELSE bg] :
        bg \in {-1, 0}, p1 \in Cells(mw, mh), p2 \in Cells(mw, mh),
        s1 \in 0..ScoreMax, s2 \in 0..ScoreMax }

Offsets == {Pt(0, 0), Pt(1, 0), Pt(1, 2)}

\* The inputs of one call: a template of tw x th on a source of SrcW x SrcH,
\* the score map match_template gives for them, and the call's arguments
TmInput(tw, th, m, off, k, thr) ==
    [tw |-> tw, th |-> th,
     mw |-> SrcW - tw + 1, mh |-> SrcH - th + 1,
     result |-> m, offset |-> off,
     max_matches |-> k, threshold |-> thr]

\* min_max_loc: the maximum of the score map and its location, the first
\* one in row-major order when several cells hold the maximum
MaxVal(result) ==
    CHOOSE v \in { result[c] : c \in DOMAIN result } :
        \A c \in DOMAIN result : result[c] <= v

MaxLoc(result, mw) ==
    LET top == { c \in DOMAIN result : result[c] = MaxVal(result) }
        c0 == CHOOSE c \in top :
                \A d \in top : c[2] * mw + c[1] <= d[2] * mw + d[1]
    IN  Pt(c0[1], c0[2])

Found(rect, score) == [ok |-> TRUE, rect |-> rect, score |-> score]
NotFound(score) == [ok |-> FALSE, score |-> score]

\* the comparison of match_one that rejects a maximum
BelowThreshold_le(score, threshold) == score <= threshold

BelowThreshold(score, threshold) == score < threshold

\* the rectangle match_one reports
MatchRect_no_offset(loc, offset, tw, th) ==
    RectFromPoints(loc, Pt(loc.x + tw, loc.y + th))

MatchRect(loc, offset, tw, th) ==
    LET tl == Pt(loc.x + offset.x, loc.y + offset.y)
        br == Pt(tl.x + tw, tl.y + th)
    IN  RectFromPoints(tl, br)

match_one(result, mw, offset, tw, th, threshold) ==
    LET score == MaxVal(result)
        loc == MaxLoc(result, mw)
    IN  IF BelowThreshold(score, threshold)
        THEN NotFound(score)
        ELSE Found(MatchRect(loc, offset, tw, th), score)

\* zeros.copy_to(&mut roi): the cells of the score map inside rect become 0
Erase(result, rect) ==
    [c \in DOMAIN result |->
        IF /\ rect.x <= c[1] /\ c[1] < rect.x + rect.width
           /\ rect.y <= c[2] /\ c[2] < rect.y + rect.height
        THEN 0 ELSE result[c]]

\* max_matches.max(1)
ClampMatches_none(max_matches) == max_matches

ClampMatches(max_matches) == Max2(max_matches, 1)

\* The loop `for _ in 0..max_matches` of detect_template_multiple, from the
\* state (score map, list so far) with `left` iterations to go.  A failed
\* attempt is pushed and the loop goes on (`continue`); an accepted one
\* takes result.roi_mut(rect).unwrap(), which aborts the call when rect does
\* not lie inside the score map.
RECURSIVE MatchLoop(_, _, _, _, _, _, _, _, _)
MatchLoop(result, mw, mh, offset, tw, th, threshold, left, filter) ==
    IF left = 0
    THEN [status |-> "returned", list |-> filter, erased |-> <<>>]
    ELSE LET m == match_one(result, mw, offset, tw, th, threshold)
         IN  IF ~m.ok
             THEN MatchLoop(result, mw, mh, offset, tw, th, threshold,
                            left - 1, Append(filter, m))
             ELSE IF ~RoiInside(m.rect, mw, mh)
             THEN [status |-> "aborted", list |-> filter,
                   erased |-> <<m.rect>>]
             ELSE LET rest == MatchLoop(Erase(result, m.rect), mw, mh, offset,
                                        tw, th, threshold, left - 1,
                                        Append(filter, m))
                  IN  [rest EXCEPT !.erased = <<m.rect>> \o @]

detect_template_multiple(in) ==
    LET max_matches == ClampMatches(in.max_matches)
    IN  IF max_matches = 1
        THEN [status |-> "returned",
              list |-> <<match_one(in.result, in.mw, in.offset, in.tw, in.th,
                                   in.threshold)>>,
              erased |-> <<>>]
        ELSE MatchLoop(in.result, in.mw, in.mh, in.offset, in.tw, in.th,
                       in.threshold, max_matches, <<>>)

\* detect_template_multiple(.., 1, ..).into_iter().next().unwrap()
detect_template_single(in) ==
    Head(detect_template_multiple([in EXCEPT !.max_matches = 1]).list)

TmInit ==
    /\ \E tw \in 1..Min2(MaxTemplate, SrcW), th \in 1..Min2(MaxTemplate, SrcH) :
        \E m \in ScoreMaps(SrcW - tw + 1, SrcH - th + 1), off \in Offsets,
           k \in 0..MaxMatches, thr \in 1..ScoreMax :
            tmIn = TmInput(tw, th, m, off, k, thr)
    /\ tmOut = <<>>
    /\ tmSingle = <<>>

TmIdle ==
    /\ tmIn = None
    /\ tmOut = <<>>
    /\ tmSingle = <<>>

\* one call of detect_template_multiple on the inputs
DetectTemplateMultiple ==
    /\ tmOut = <<>>
    /\ tmOut' = <<detect_template_multiple(tmIn)>>
    /\ UNCHANGED <<tmIn, tmSingle, flagVars, calLog, rcVars, mmVars, laterVars>>

\* one call of detect_template_single on the same source, template, offset
\* and threshold
DetectTemplateSingle ==
    /\ tmSingle = <<>>
    /\ tmSingle' = <<detect_template_single(tmIn)>>
    /\ UNCHANGED <<tmIn, tmOut, flagVars, calLog, rcVars, mmVars, laterVars>>

TmNext ==
    \/ DetectTemplateMultiple
    \/ DetectTemplateSingle


(***************************************************************************)
(* Calibration flags: detect_player and detect_player_health_bars          *)
(***************************************************************************)
\* Thresholds of the source, in hundredths
PLAYER_IDEAL_RATIO_THRESHOLD == 75
PLAYER_DEFAULT_RATIO_THRESHOLD == 60
HP_SEPARATOR_THRESHOLD == 70
TOMB_THRESHOLD == 80

\* Bounds
MaxCalls == 3
NumCallers == 2
MaxCallsPerCaller == 2

\* A frame is known to a detector by the best score each template reaches
\* on it: for each template, a score just below or at its threshold.
PlayerFrames ==
    [PLAYER_IDEAL_RATIO :
        {PLAYER_IDEAL_RATIO_THRESHOLD - 1, PLAYER_IDEAL_RATIO_THRESHOLD},
     PLAYER_DEFAULT_RATIO :
        {PLAYER_DEFAULT_RATIO_THRESHOLD - 1, PLAYER_DEFAULT_RATIO_THRESHOLD}]

\* The health-bar frames also say how the steps after the separator end:
\* "ok", or "err" when no text box is found for the current or max health.
HealthBarFrames ==
    [HP_SEPARATOR_1 : {HP_SEPARATOR_THRESHOLD - 1, HP_SEPARATOR_THRESHOLD},
     HP_SEPARATOR_2 : {HP_SEPARATOR_THRESHOLD - 1, HP_SEPARATOR_THRESHOLD},
     later : {"ok", "err"}]

TombFrames == [TOMB : {TOMB_THRESHOLD - 1, TOMB_THRESHOLD}]

\* detect_template(mat, template, offset, threshold).is_ok(): the single
\* match of match_one on the frame's best score for this template
TemplateFound(frame, template, threshold) ==
    ~BelowThreshold(frame[template], threshold)

\* the template and threshold detect_player selects from the flag it read
PlayerTemplate(was_ideal_ratio) ==
    IF was_ideal_ratio THEN "PLAYER_IDEAL_RATIO" ELSE "PLAYER_DEFAULT_RATIO"

PlayerThreshold(was_ideal_ratio) ==
    IF was_ideal_ratio THEN PLAYER_IDEAL_RATIO_THRESHOLD
                       ELSE PLAYER_DEFAULT_RATIO_THRESHOLD

\* the template detect_player_health_bars selects from the flag it read
SeparatorTemplate(hp_separator_type_1) ==
    IF hp_separator_type_1 THEN "HP_SEPARATOR_1" ELSE "HP_SEPARATOR_2"

\* `if result.is_err() { FLAG.store(!was, Release) }`: the flag after the
\* call, from the flag now, the value the call read and its attempt's result
StoreOnFailure_toggle(flag, was, ok) == IF ok THEN flag ELSE ~flag

StoreOnFailure_always(flag, was, ok) == ~was

StoreOnFailure_same(flag, was, ok) == IF ok THEN flag ELSE was

StoreOnFailure(flag, was, ok) == IF ok THEN flag ELSE ~was

\* The atomic accesses of a call: the flag, load or store, and the ordering
\* the source passes.
Access(flag, op, ordering) == [flag |-> flag, op |-> op, ordering |-> ordering]

PlayerAccesses(ok) ==
    <<Access("WAS_IDEAL_RATIO", "load", "Acquire")>>
        \o (IF ok THEN <<>>
            ELSE <<Access("WAS_IDEAL_RATIO", "store", "Release")>>)

HealthBarAccesses(ok) ==
    <<Access("HP_SEPARATOR_TYPE_1", "load", "Relaxed")>>
        \o (IF ok THEN <<>>
            ELSE <<Access("HP_SEPARATOR_TYPE_1", "store", "Release")>>)

Flags == [player |-> WAS_IDEAL_RATIO, hp |-> HP_SEPARATOR_TYPE_1]

\* One whole call of detect_player on `frame`, by a sequential caller.
SeqDetectPlayer(frame) ==
    LET was_ideal_ratio == WAS_IDEAL_RATIO
        template == PlayerTemplate(was_ideal_ratio)
        threshold == PlayerThreshold(was_ideal_ratio)
        ok == TemplateFound(frame, template, threshold)
    IN  /\ Len(calLog) < MaxCalls
        /\ WAS_IDEAL_RATIO' = StoreOnFailure(WAS_IDEAL_RATIO, was_ideal_ratio, ok)
        /\ UNCHANGED HP_SEPARATOR_TYPE_1
        /\ calLog' = Append(calLog,
                [det |-> "detect_player", frame |-> frame,
                 read |-> <<was_ideal_ratio>>, attempts |-> <<template>>,
                 attemptOk |-> ok, result |-> IF ok THEN "ok" ELSE "err",
                 before |-> Flags,
                 after |-> [Flags EXCEPT !.player = WAS_IDEAL_RATIO'],
                 accesses |-> PlayerAccesses(ok)])
        /\ UNCHANGED <<tmVars, rcVars, mmVars, laterVars>>

\* One whole call of detect_player_health_bars on `frame`: the separator
\* attempt, and on its failure the store and the early return (`?`); the
\* later steps do not touch the flag.
SeqDetectHealthBars(frame) ==
    LET hp_separator_type_1 == HP_SEPARATOR_TYPE_1
        template == SeparatorTemplate(hp_separator_type_1)
        ok == TemplateFound(frame, template, HP_SEPARATOR_THRESHOLD)
    IN  /\ Len(calLog) < MaxCalls
        /\ HP_SEPARATOR_TYPE_1' =
                StoreOnFailure(HP_SEPARATOR_TYPE_1, hp_separator_type_1, ok)
        /\ UNCHANGED WAS_IDEAL_RATIO
        /\ calLog' = Append(calLog,
                [det |-> "detect_player_health_bars", frame |-> frame,
                 read |-> <<hp_separator_type_1>>, attempts |-> <<template>>,
                 attemptOk |-> ok,
                 result |-> IF ok THEN frame.later ELSE "err",
                 before |-> Flags,
                 after |-> [Flags EXCEPT !.hp = HP_SEPARATOR_TYPE_1'],
                 accesses |-> HealthBarAccesses(ok)])
        /\ UNCHANGED <<tmVars, rcVars, mmVars, laterVars>>

\* One whole call of detect_player_is_dead, a detector without a flag.
SeqDetectPlayerIsDead(frame) ==
    LET ok == TemplateFound(frame, "TOMB", TOMB_THRESHOLD)
    IN  /\ Len(calLog) < MaxCalls
        /\ UNCHANGED flagVars
        /\ calLog' = Append(calLog,
                [det |-> "detect_player_is_dead", frame |-> frame,
                 read |-> <<>>, attempts |-> <<"TOMB">>,
                 attemptOk |-> ok, result |-> IF ok THEN "ok" ELSE "err",
                 before |-> Flags, after |-> Flags,
                 accesses |-> <<>>])
        /\ UNCHANGED <<tmVars, rcVars, mmVars, laterVars>>

FlagInit ==
    /\ WAS_IDEAL_RATIO = FALSE
    /\ HP_SEPARATOR_TYPE_1 = TRUE

RcIdle ==
    /\ rcScale = FALSE
    /\ rcPc = <<>>
    /\ rcWas = <<>>
    /\ rcOk = <<>>
    /\ rcCalls = <<>>
    /\ rcFails = <<>>

MmIdle ==
    /\ mmPc = "idle"
    /\ mmThr = 0
    /\ mmBbox = <<>>
    /\ mmExpanded = <<>>
    /\ mmContour = <<>>
    /\ mmVote = <<>>
    /\ mmResult = [status |-> "none"]

CalibInit ==
    /\ TmIdle
    /\ LaterIdle
    /\ FlagInit
    /\ calLog = <<>>
    /\ RcIdle
    /\ MmIdle

CalibNext ==
    \/ \E frame \in PlayerFrames : SeqDetectPlayer(frame)
    \/ \E frame \in HealthBarFrames : SeqDetectHealthBars(frame)
    \/ \E frame \in TombFrames : SeqDetectPlayerIsDead(frame)

SpecCalib == CalibInit /\ [][CalibNext]_vars

(***************************************************************************)
(* Concurrent callers of detect_player.  The client's scale is fixed       *)
(* (rcScale), so on every frame exactly one player template matches: the   *)
(* ideal-ratio one when rcScale, the default-ratio one otherwise.          *)
(***************************************************************************)
Callers == 1..NumCallers

ScaleFrame(scale) ==
    [PLAYER_IDEAL_RATIO |->
        IF scale THEN PLAYER_IDEAL_RATIO_THRESHOLD
                 ELSE PLAYER_IDEAL_RATIO_THRESHOLD - 1,
     PLAYER_DEFAULT_RATIO |->
        IF scale THEN PLAYER_DEFAULT_RATIO_THRESHOLD - 1
                 ELSE PLAYER_DEFAULT_RATIO_THRESHOLD]

\* WAS_IDEAL_RATIO.load(Ordering::Acquire)
RcLoad(c) ==
    /\ rcPc[c] = "idle"
    /\ rcCalls[c] < MaxCallsPerCaller
    /\ rcWas' = [rcWas EXCEPT ![c] = WAS_IDEAL_RATIO]
    /\ rcPc' = [rcPc EXCEPT ![c] = "loaded"]
    /\ UNCHANGED <<tmVars, flagVars, calLog, rcScale, rcOk, rcCalls, rcFails, mmVars, laterVars>>

\* detect_template(mat, template, Point::default(), threshold)
RcMatch(c) ==
    /\ rcPc[c] = "loaded"
    /\ rcOk' = [rcOk EXCEPT ![c] =
            TemplateFound(ScaleFrame(rcScale), PlayerTemplate(rcWas[c]),
                          PlayerThreshold(rcWas[c]))]
    /\ rcPc' = [rcPc EXCEPT ![c] = "matched"]
    /\ UNCHANGED <<tmVars, flagVars, calLog, rcScale, rcWas, rcCalls, rcFails, mmVars, laterVars>>

\* if result.is_err() { WAS_IDEAL_RATIO.store(!was_ideal_ratio, Release) }
\* and the return of the result
RcStoreReturn(c) ==
    /\ rcPc[c] = "matched"
    /\ WAS_IDEAL_RATIO' = StoreOnFailure(WAS_IDEAL_RATIO, rcWas[c], rcOk[c])
    /\ rcPc' = [rcPc EXCEPT ![c] = "idle"]
    /\ rcCalls' = [rcCalls EXCEPT ![c] = @ + 1]
    /\ rcFails' = [rcFails EXCEPT ![c] = IF rcOk[c] THEN @ ELSE @ + 1]
    /\ UNCHANGED <<tmVars, HP_SEPARATOR_TYPE_1, calLog, rcScale, rcWas, rcOk, mmVars, laterVars>>

RaceInit ==
    /\ TmIdle
    /\ LaterIdle
    /\ FlagInit
    /\ calLog = <<>>
    /\ rcScale \in BOOLEAN
    /\ rcPc = [c \in Callers |-> "idle"]
    /\ rcWas = [c \in Callers |-> FALSE]
    /\ rcOk = [c \in Callers |-> FALSE]
    /\ rcCalls = [c \in Callers |-> 0]
    /\ rcFails = [c \in Callers |-> 0]
    /\ MmIdle

RaceNext ==
    \E c \in Callers :
        \/ RcLoad(c)
        \/ RcMatch(c)
        \/ RcStoreReturn(c)

SpecRace == RaceInit /\ [][RaceNext]_vars


(***************************************************************************)
(* Minimap locator: detect_minimap                                         *)
(***************************************************************************)
\* Program constants
YOLO_SIZE == 640              \* the network's square input
MINIMAP_CONFIDENCE == 50      \* pred[4] < 0.5 rejects, in hundredths
EXPAND_PERMILLE == 8          \* the factor 0.008 of expand_bbox
CONTOUR_AREA_DELTA == 1100    \* bbox.area() - contour.area() >= 1100
BORDER_TRIM_TENTHS == 1       \* the factor 0.1 of the border vote

\* Bounds: the frame, the rows of the network output, the contours found in
\* the crop, and the thickness of the white border in the frame
FrameW == 60
FrameH == 40
MaxRows == 2
MaxContours == 2
MaxBorder == 2

FrameSize == [width |-> FrameW, height |-> FrameH]

\* Output rows [x1, y1, x2, y2, confidence] of the network, in the
\* coordinates of its 640 x 640 input: boxes from the frame's left or top
\* edge or inside it, to inside it or its right or bottom edge
PredRows ==
    { <<x1, y1, x2, y2, conf>> :
        x1 \in {0, 64}, y1 \in {0, 32}, x2 \in {576, 640}, y2 \in {592, 640},
        conf \in {MINIMAP_CONFIDENCE - 1, MINIMAP_CONFIDENCE, 90} }

SeqsUpTo(S, n) == UNION { [1..k -> S] : k \in 0..n }

BorderThresholds == {0, 128, 255}

\* (coord * ratio).max(0.0).min(limit as f32) as i32, with ratio =
\* limit / 640: the products are exact for the coordinates above
RemapCoord(coord, limit) ==
    Min2(Max2((coord * limit) \div YOLO_SIZE, 0), limit)

remap_from_yolo(pred, size) ==
    RectFromPoints(
        Pt(RemapCoord(pred[1], size.width), RemapCoord(pred[2], size.height)),
        Pt(RemapCoord(pred[3], size.width), RemapCoord(pred[4], size.height)))

\* (0..rows).map(row).max_by(|a, b| a[4].total_cmp(&b[4])): the last row of
\* the greatest confidence
MaxByConfidence(rows) ==
    CHOOSE i \in DOMAIN rows :
        /\ \A j \in DOMAIN rows : rows[j][5] <= rows[i][5]
        /\ \A j \in DOMAIN rows : rows[j][5] = rows[i][5] => j <= i

\* pred.and_then(..): no row, or pred[4] < 0.5, gives no bbox
SelectBbox(rows, size) ==
    IF rows = <<>> THEN <<>>
    ELSE LET pred == rows[MaxByConfidence(rows)]
         IN  IF pred[5] < MINIMAP_CONFIDENCE THEN <<>>
             ELSE <<remap_from_yolo(pred, size)>>

\* (bbox.width.max(bbox.height) as f32 * 0.008).ceil() as i32
ExpandCount(bbox) ==
    (Max2(bbox.width, bbox.height) * EXPAND_PERMILLE + 999) \div 1000

expand_bbox_clamped(bbox) ==
    LET count == ExpandCount(bbox)
        x == Max2(bbox.x - count, 0)
        y == Max2(bbox.y - count, 0)
    IN  Rect(x, y, Min2(bbox.x + bbox.width + count, FrameW) - x,
                   Min2(bbox.y + bbox.height + count, FrameH) - y)

expand_bbox(bbox) ==
    LET count == ExpandCount(bbox)
        x == Max2(bbox.x - count, 0)
        y == Max2(bbox.y - count, 0)
        x_size == (bbox.x - x) * 2
        y_size == (bbox.y - y) * 2
    IN  Rect(x, y, bbox.width + x_size, bbox.height + y_size)

\* The bounding rectangles find_contours + bounding_rect can give inside a
\* crop of the given size, in the crop's coordinates: narrow or wide, flat
\* or tall, at the crop's left/top edge, one pixel in, or at its right edge
ContourRects(cw, ch) ==
    { r \in { Rect(x, y, w, h) :
                w \in {9, 20, cw}, h \in {2, 12},
                x \in {0, 1, cw - 9, cw - 20}, y \in {0, 1} } :
        /\ 0 <= r.x /\ r.x + r.width <= cw
        /\ 0 <= r.y /\ r.y + r.height <= ch }

\* .max_by(|a, b| a.area().cmp(&b.area())): the last contour of the
\* greatest area
MaxByArea(rects) ==
    CHOOSE i \in DOMAIN rects :
        /\ \A j \in DOMAIN rects : RectArea(rects[j]) <= RectArea(rects[i])
        /\ \A j \in DOMAIN rects :
                RectArea(rects[j]) = RectArea(rects[i]) => j <= i

\* Rect::from_points(contour.tl() + bbox.tl(), contour.br() + bbox.tl())
TranslateContour(contour, bbox) ==
    RectFromPoints(Pt(contour.x + bbox.x, contour.y + bbox.y),
                   Pt(contour.x + contour.width + bbox.x,
                      contour.y + contour.height + bbox.y))

\* (bbox & contour) == contour && (bbox.area() - contour.area()) >= 1100
ContourValid(bbox, contour) ==
    /\ RectAnd(bbox, contour) = contour
    /\ RectArea(bbox) - RectArea(contour) >= CONTOUR_AREA_DELTA

\* Pixels (B, G, R, A) of the frame around the contour
White == <<255, 255, 255, 255>>
Tinted == <<255, 255, 100, 255>>
Dark == <<30, 30, 30, 255>>

\* The frame's pixels in the columns of the contour, described from the
\* contour's top edge: the columns left of `split` have `left` white rows,
\* the others `right` white rows, and below them the pixels are `inner`.
Images ==
    [left : 0..MaxBorder, right : 0..MaxBorder, split : {0, 5, 10},
     inner : {Dark, Tinted, White}]

PixelAt(img, contour, row, col) ==
    LET thick == IF col - contour.x < img.split THEN img.left ELSE img.right
    IN  IF row - contour.y < thick THEN White ELSE img.inner

\* mat.at_2d::<Vec4b>(row, col) is an error outside the frame
InFrame(row, col) ==
    /\ 0 <= row /\ row < FrameH
    /\ 0 <= col /\ col < FrameW

\* .iter().all(|v| *v >= border_threshold)
PixelPasses_any(pixel, border_threshold) ==
    \E k \in DOMAIN pixel : pixel[k] >= border_threshold

PixelPasses(pixel, border_threshold) ==
    \A k \in DOMAIN pixel : pixel[k] >= border_threshold

\* the inner loop over the rows of one column: the number of pixels from
\* the contour's top edge that pass, up to the first that does not
RECURSIVE ColumnCount(_, _, _, _, _)
ColumnCount(img, bound, col, row, border_threshold) ==
    IF row >= bound.y + bound.height THEN 0
    ELSE IF PixelPasses(PixelAt(img, bound, row, col), border_threshold)
    THEN 1 + ColumnCount(img, bound, col, row + 1, border_threshold)
    ELSE 0

\* (bound.width as f32 * 0.1) as i32
TrimRange(bound) == (bound.width * BORDER_TRIM_TENTHS) \div 10

\* the columns `start..end` of the vote
SampledColumns(bound) ==
    LET range == TrimRange(bound)
        start == bound.x + range
        end == bound.x + bound.width - range + 1
    IN  start..(end - 1)

\* counts: for each count, the number of sampled columns with that count
Tally(img, bound, border_threshold) ==
    LET cols == SampledColumns(bound)
        countOf == [col \in cols |->
                        ColumnCount(img, bound, col, bound.y, border_threshold)]
        seen == { countOf[col] : col \in cols }
    IN  [n \in seen |-> Cardinality({ col \in cols : countOf[col] = n })]

\* counts.into_iter().max_by(|a, b| a.1.cmp(&b.1)): a count of the greatest
\* tally; which one of several depends on the HashMap's iteration order
Modes(tally) ==
    { n \in DOMAIN tally : \A m \in DOMAIN tally : tally[m] <= tally[n] }

\* the rectangle detect_minimap returns
ShrinkRect_grow(contour, count) ==
    Rect(contour.x - count, contour.y - count,
         contour.width + count * 2, contour.height + count * 2)

ShrinkRect(contour, count) ==
    Rect(contour.x + count, contour.y + count,
         contour.width - count * 2, contour.height - count * 2)

MmInit ==
    /\ mmPc = "detect"
    /\ mmThr \in BorderThresholds
    /\ mmBbox = <<>>
    /\ mmExpanded = <<>>
    /\ mmContour = <<>>
    /\ mmVote = <<>>
    /\ mmResult = [status |-> "none"]

MmOthers == UNCHANGED <<tmVars, flagVars, calLog, rcVars, mmThr, laterVars>>

\* the network run, the choice of the candidate and its remap
MmDetect ==
    /\ mmPc = "detect"
    /\ \E rows \in SeqsUpTo(PredRows, MaxRows) :
        LET bbox == SelectBbox(rows, FrameSize)
        IN  /\ mmBbox' = bbox
            /\ IF bbox = <<>>
               THEN /\ mmPc' = "done"
                    /\ mmResult' = [status |-> "not_found"]
               ELSE /\ mmPc' = "crop"
                    /\ UNCHANGED mmResult
    /\ UNCHANGED <<mmExpanded, mmContour, mmVote>>
    /\ MmOthers

\* expand_bbox, mat.roi(bbox).unwrap() and the grayscale conversion: the
\* call aborts when the expanded rectangle leaves the frame or is empty
MmCrop ==
    /\ mmPc = "crop"
    /\ LET bbox == expand_bbox(mmBbox[1])
       IN  /\ mmExpanded' = <<bbox>>
           /\ IF RoiInside(bbox, FrameW, FrameH) /\ ~RectEmpty(bbox)
              THEN /\ mmPc' = "contours"
                   /\ UNCHANGED mmResult
              ELSE /\ mmPc' = "done"
                   /\ mmResult' = [status |-> "aborted"]
    /\ UNCHANGED <<mmBbox, mmContour, mmVote>>
    /\ MmOthers

\* the external contours of the binarized crop, the one of maximum area,
\* its translation to the frame and its validation
MmContours ==
    /\ mmPc = "contours"
    /\ LET bbox == mmExpanded[1]
       IN  \E found \in SeqsUpTo(ContourRects(bbox.width, bbox.height),
                                 MaxContours) :
            IF found = <<>>
            THEN /\ mmPc' = "done"
                 /\ mmResult' = [status |-> "not_found"]
                 /\ UNCHANGED mmContour
            ELSE LET contour == TranslateContour(found[MaxByArea(found)], bbox)
                 IN  IF ContourValid(bbox, contour)
                     THEN /\ mmPc' = "vote"
                          /\ mmContour' = <<contour>>
                          /\ UNCHANGED mmResult
                     ELSE /\ mmPc' = "done"
                          /\ mmResult' = [status |-> "not_found"]
                          /\ UNCHANGED mmContour
    /\ UNCHANGED <<mmBbox, mmExpanded, mmVote>>
    /\ MmOthers

\* the border vote and the shrunk rectangle: the call aborts when a sampled
\* pixel lies outside the frame
MmVote ==
    /\ mmPc = "vote"
    /\ LET bound == mmContour[1]
           cols == SampledColumns(bound)
       IN  IF \E col \in cols : ~InFrame(bound.y, col)
           THEN /\ mmPc' = "done"
                /\ mmVote' = <<[cols |-> cols, img |-> None, tally |-> <<>>,
                                count |-> 0]>>
                /\ mmResult' = [status |-> "aborted"]
           ELSE \E img \in Images :
                    LET tally == Tally(img, bound, mmThr)
                    IN  \E count \in Modes(tally) :
                            /\ mmPc' = "done"
                            /\ mmVote' = <<[cols |-> cols, img |-> img,
                                            tally |-> tally, count |-> count]>>
                            /\ mmResult' = [status |-> "ok",
                                            rect |-> ShrinkRect(bound, count)]
    /\ UNCHANGED <<mmBbox, mmExpanded, mmContour>>
    /\ MmOthers

MinimapInit ==
    /\ TmIdle
    /\ LaterIdle
    /\ FlagInit
    /\ calLog = <<>>
    /\ RcIdle
    /\ MmInit

MinimapNext ==
    \/ MmDetect
    \/ MmCrop
    \/ MmContours
    \/ MmVote

SpecMinimap == MinimapInit /\ [][MinimapNext]_vars

(***************************************************************************)
(* Mob detection: detect_mobs and to_minimap_coordinate                    *)
(***************************************************************************)
EarlyIdle ==
    /\ TmIdle
    /\ FlagInit
    /\ calLog = <<>>
    /\ RcIdle
    /\ MmIdle

\* Bounds of the mob-detection inputs
ScreenW == 1280
ScreenH == 720
MaxMobRows == 2
MaxPlayer == 4
MobMinimapH == 4

\* The constants of the transform, as the fractions their f32 values round:
\* A1 = 0.065_789_476 = 5/76, B2 = 0.072_635_14 = 43/592, and the bias 20.
\* A2 and B1 only ever multiply a zero component.
A1_NUM == 5
A1_DEN == 76
B2_NUM == 43
B2_DEN == 592
Y_BIAS == 20
MOB_CONFIDENCE == 50

ScreenSize == [width |-> ScreenW, height |-> ScreenH]

\* Output rows of the mob network: boxes left of the middle of the screen,
\* at it and right of it, at two heights
MobRows ==
    { <<x1, 300, x1 + 60, y2, conf>> :
        x1 \in {280, 290, 300}, y2 \in {384, 416},
        conf \in {MOB_CONFIDENCE - 1, MOB_CONFIDENCE} }

\* the playable bounds of the calls
MobBounds == { Rect(1, 1, 2, 2), Rect(0, 0, 3, 2) }

Abs(n) == IF n < 0 THEN 0 - n ELSE n

\* the nearest integer of n / d (d > 0), as Point2f::to::<i32> rounds
RoundDiv(n, d) == (2 * n + d) \div (2 * d)

\* The point of the transform before the test against the bound.  twice_x
\* is twice size.width / 2.0 - (bbox.x + bbox.width / 2), which keeps the
\* half of an odd width exact.
TransformPoint(bbox, minimap, player, size) ==
    LET twice_x == size.width - 2 * (bbox.x + bbox.width \div 2)
        is_left == twice_x > 0
        point_y == size.height - (bbox.y + bbox.height)
        dx == RoundDiv(Abs(twice_x) * A1_NUM, 2 * A1_DEN)
        dy == RoundDiv(point_y * B2_NUM - Y_BIAS * B2_DEN, B2_DEN)
        x == IF is_left THEN player.x - dx ELSE player.x + dx
        y == player.y + dy
    IN  Pt(x, minimap.height - y)

\* the test that discards a point
OutOfBound_strict(point, bound) ==
    \/ point.x < 0
    \/ point.y < 0
    \/ point.x <= bound.x
    \/ point.x >= bound.x + bound.width
    \/ point.y <= bound.y
    \/ point.y >= bound.y + bound.height

OutOfBound(point, bound) ==
    \/ point.x < 0
    \/ point.y < 0
    \/ point.x < bound.x
    \/ point.x > bound.x + bound.width
    \/ point.y < bound.y
    \/ point.y > bound.y + bound.height

\* Option<Point>: <<>> is None, <<point>> is Some(point)
to_minimap_coordinate(bbox, minimap, bound, player, size) ==
    LET point == TransformPoint(bbox, minimap, player, size)
    IN  IF OutOfBound(point, bound) THEN <<>> ELSE <<point>>

\* the rows of confidence >= 0.5, remapped, in the order of the rows
RECURSIVE MobBboxes(_, _)
MobBboxes(rows, size) ==
    IF rows = <<>> THEN <<>>
    ELSE LET rest == MobBboxes(Tail(rows), size)
         IN  IF Head(rows)[5] >= MOB_CONFIDENCE
             THEN <<remap_from_yolo(Head(rows), size)>> \o rest
             ELSE rest

\* .filter_map(|bbox| to_minimap_coordinate(..)).collect()
RECURSIVE FilterMapPoints(_, _, _, _, _)
FilterMapPoints(bboxes, minimap, bound, player, size) ==
    IF bboxes = <<>> THEN <<>>
    ELSE to_minimap_coordinate(Head(bboxes), minimap, bound, player, size)
            \o FilterMapPoints(Tail(bboxes), minimap, bound, player, size)

detect_mobs(in) ==
    FilterMapPoints(MobBboxes(in.rows, ScreenSize), in.minimap, in.bound,
                    in.player, ScreenSize)

MobInit ==
    \E rows \in SeqsUpTo(MobRows, MaxMobRows), bound \in MobBounds,
       px \in 0..MaxPlayer, py \in 0..MaxPlayer :
        mob = [in |-> [rows |-> rows, bound |-> bound, player |-> Pt(px, py),
                       minimap |-> Rect(0, 0, MobMinimapH, MobMinimapH)],
               out |-> <<>>]

\* one call of detect_mobs
DetectMobs ==
    /\ mob.out = <<>>
    /\ mob' = [mob EXCEPT !.out = <<detect_mobs(mob.in)>>]
    /\ UNCHANGED <<earlyVars, lastVars, txt, rune, rmp, hp, portal, lzVars, ocVars, arrVars>>

MobsInit ==
    /\ EarlyIdle
    /\ LastIdle
    /\ MobInit
    /\ txt = None /\ rune = None /\ rmp = None /\ hp = None /\ portal = None
    /\ LzIdle /\ OcIdle /\ ArrIdle

MobsNext == DetectMobs

SpecMobs == MobsInit /\ [][MobsNext]_vars

(***************************************************************************)
(* Text region extractor: extract_text_bboxes                              *)
(***************************************************************************)
\* Bounds of the text-extractor inputs: the labels of one call and the
\* size of the score maps
MaxComponents == 3
TextMapW == 16
TextMapH == 6

TEXT_SCORE_THRESHOLD == 70
TEXT_AREA_MIN == 10

\* What connected_components_with_stats and the segmentation give for one
\* label: the pixel area, the maximum raw text score inside the label's mask
\* (hundredths) and the corners of the bounding rectangle of its dilated
\* segmentation
TextComponents ==
    [area : {TEXT_AREA_MIN - 1, TEXT_AREA_MIN},
     max_score : {TEXT_SCORE_THRESHOLD - 1, TEXT_SCORE_THRESHOLD},
     tl : {Pt(2, 1)}, br : {Pt(6, 3), Pt(1, 0)}]

\* The bounding boxes (CC_STAT_LEFT, _TOP, _WIDTH, _HEIGHT) of the labels:
\* at the map's left/top edge, inside it, and at its right/bottom edge.
\* Label i of a call has the box at position i + shift.
TextBoxes ==
    << Rect(0, 0, 5, 2), Rect(4, 2, 5, 2),
       Rect(TextMapW - 5, TextMapH - 2, 5, 2), Rect(1, 1, 2, 5) >>

TextBox(in, i) == TextBoxes[((i + in.shift) % Len(TextBoxes)) + 1]

\* `(size.sqrt() * 2.0) as i32` for size = area * min(w, h) / (w * h): the
\* greatest n with n * n <= 4 * area * min(w, h) / (w * h)
TextSize(area, w, h) ==
    LET bound == 4 * area * Min2(w, h)
    IN  CHOOSE n \in 0..bound :
            /\ n * n * w * h <= bound
            /\ (n + 1) * (n + 1) * w * h > bound

\* the local region of interest of a label: sx, sy, ex, ey and
\* Rect::from_points(Point::new(sx, sy), Point::new(ex, ey))
TextRoi(area, box, width, height) ==
    LET size == TextSize(area, box.width, box.height)
        sx == Max2(box.x - size + 1, 0)
        sy == Max2(box.y - size + 1, 0)
        ex == Min2(box.x + box.width + size + 1, width)
        ey == Min2(box.y + box.height + size + 1, height)
    IN  RectFromPoints(Pt(sx, sy), Pt(ex, ey))

\* the two `continue`s of the loop
TextSkipped_area_only(comp) == comp.area < TEXT_AREA_MIN

TextSkipped(comp) ==
    \/ comp.area < TEXT_AREA_MIN
    \/ comp.max_score < TEXT_SCORE_THRESHOLD

\* Rect::from_points(tl, br) of the corners scaled by twice the ratios and
\* moved by the offsets; the ratios are given doubled (w_ratio * 2.0)
TextRect(comp, in) ==
    RectFromPoints(
        Pt(comp.tl.x * in.twice_w_ratio + in.x_offset,
           comp.tl.y * in.twice_h_ratio + in.y_offset),
        Pt(comp.br.x * in.twice_w_ratio + in.x_offset,
           comp.br.y * in.twice_h_ratio + in.y_offset))

\* `for i in 1..labels_count`, from label i on: the rectangles pushed, and
\* next to each the label it came from and the local region of interest
\* that was dilated for it
RECURSIVE TextLoop(_, _)
TextLoop(in, i) ==
    IF i > Len(in.comps) THEN [bboxes |-> <<>>, labels |-> <<>>, rois |-> <<>>]
    ELSE LET rest == TextLoop(in, i + 1)
         IN  IF TextSkipped(in.comps[i]) THEN rest
             ELSE [bboxes |-> <<TextRect(in.comps[i], in)>> \o rest.bboxes,
                   labels |-> <<i>> \o rest.labels,
                   rois |-> <<TextRoi(in.comps[i].area, TextBox(in, i),
                                      TextMapW, TextMapH)>> \o rest.rois]

extract_text_bboxes(in) == TextLoop(in, 1)

TxtInit ==
    \E comps \in SeqsUpTo(TextComponents, MaxComponents),
       ratio \in {1, 2}, offset \in {0, 5}, shift \in {0, 1} :
        txt = [in |-> [comps |-> comps, shift |-> shift,
                       twice_w_ratio |-> ratio, twice_h_ratio |-> 1,
                       x_offset |-> offset, y_offset |-> 0],
               out |-> <<>>]

\* one call of extract_text_bboxes
ExtractTextBboxes ==
    /\ txt.out = <<>>
    /\ txt' = [txt EXCEPT !.out = <<extract_text_bboxes(txt.in)>>]
    /\ UNCHANGED <<earlyVars, lastVars, mob, rune, rmp, hp, portal, lzVars, ocVars, arrVars>>

TextInit ==
    /\ EarlyIdle
    /\ LastIdle
    /\ TxtInit
    /\ mob = None /\ rune = None /\ rmp = None /\ hp = None /\ portal = None
    /\ LzIdle /\ OcIdle /\ ArrIdle

TextNext == ExtractTextBboxes

SpecText == TextInit /\ [][TextNext]_vars

(***************************************************************************)
(* Rune arrows: detect_rune_arrows                                         *)
(***************************************************************************)
\* Bound of the rune-arrow inputs
MaxRuneRows == 5

RUNE_CONFIDENCE == 80
RUNE_ARROWS == 4

\* Output rows [x1, y1, x2, y2, confidence, class] of the rune network, from
\* their left edge and confidence; the classes are those of the network's
\* four arrow classes and are given to the rows by position
RuneRowShapes ==
    { <<10, RUNE_CONFIDENCE - 1>> }
        \cup { <<x1, RUNE_CONFIDENCE>> : x1 \in {10, 20, 30, 40} }

RuneRows(shapes, shift) ==
    [i \in DOMAIN shapes |->
        <<shapes[i][1], 5, shapes[i][1] + 8, 15, shapes[i][2], (i + shift) % 4>>]

\* match pred[5] as i32 { 0 => Up, 1 => Down, 2 => Left, 3 => Right }
map_arrow(pred) ==
    CASE pred[6] = 0 -> "Up"
      [] pred[6] = 1 -> "Down"
      [] pred[6] = 2 -> "Left"
      [] pred[6] = 3 -> "Right"

\* .filter(|&pred| pred[4] >= 0.8)
RuneKept_gt(pred) == pred[5] > RUNE_CONFIDENCE

RuneKept(pred) == pred[5] >= RUNE_CONFIDENCE

RECURSIVE RuneFilter(_)
RuneFilter(rows) ==
    IF rows = <<>> THEN <<>>
    ELSE IF RuneKept(Head(rows)) THEN <<Head(rows)>> \o RuneFilter(Tail(rows))
    ELSE RuneFilter(Tail(rows))

\* preds.sort_by(|&a, &b| a[0].total_cmp(&b[0])): a stable sort, so rows of
\* the same x keep their order
RECURSIVE InsertByX(_, _)
InsertByX(sorted, pred) ==
    IF sorted = <<>> THEN <<pred>>
    ELSE IF pred[1] < Head(sorted)[1] THEN <<pred>> \o sorted
    ELSE <<Head(sorted)>> \o InsertByX(Tail(sorted), pred)

RECURSIVE SortByX(_)
SortByX(preds) ==
    IF preds = <<>> THEN <<>>
    ELSE InsertByX(SortByX(SubSeq(preds, 1, Len(preds) - 1)),
                   preds[Len(preds)])

detect_rune_arrows(rows) ==
    LET preds == RuneFilter(rows)
    IN  IF Len(preds) # RUNE_ARROWS
        THEN [ok |-> FALSE]
        ELSE LET sorted == SortByX(preds)
             IN  [ok |-> TRUE,
                  keys |-> [i \in 1..RUNE_ARROWS |-> map_arrow(sorted[i])]]

RuneInit ==
    \E shapes \in SeqsUpTo(RuneRowShapes, MaxRuneRows), shift \in {0, 1} :
        rune = [in |-> RuneRows(shapes, shift), out |-> <<>>]

\* one call of detect_rune_arrows
DetectRuneArrows ==
    /\ rune.out = <<>>
    /\ rune' = [rune EXCEPT !.out = <<detect_rune_arrows(rune.in)>>]
    /\ UNCHANGED <<earlyVars, lastVars, mob, txt, rmp, hp, portal, lzVars, ocVars, arrVars>>

RunesInit ==
    /\ EarlyIdle
    /\ LastIdle
    /\ RuneInit
    /\ mob = None /\ txt = None /\ rmp = None /\ hp = None /\ portal = None
    /\ LzIdle /\ OcIdle /\ ArrIdle

RunesNext == DetectRuneArrows

SpecRunes == RunesInit /\ [][RunesNext]_vars

(***************************************************************************)
(* Neural box remapping: remap_from_yolo with any ratios                   *)
(***************************************************************************)
\* Bounds of the remapping inputs
RemapW == 6
RemapH == 4
MaxRaw == 8

\* ratios are given in thousandths
RatioScale == 1000

\* f32 values of a prediction row: a number, NaN, or an infinity (v is its
\* sign)
Num(n) == [kind |-> "num", v |-> n]
NaN == [kind |-> "nan", v |-> 0]
Inf(sign) == [kind |-> "inf", v |-> sign]

RawCoords == { Num(0 - 3), Num(0), Num(2), Num(MaxRaw), NaN, Inf(1), Inf(0 - 1) }

Ratios == {0, 500, 1500}

\* pred[i] * ratio, in thousandths; an infinity times 0.0 is NaN
FMul(c, ratio) ==
    IF c.kind = "num" THEN Num(c.v * ratio)
    ELSE IF c.kind = "inf" /\ ratio # 0 THEN c
    ELSE NaN

\* (pred[i] * ratio).max(0.0).min(limit as f32) as i32: f32::max and
\* f32::min return the other operand when one is NaN, and the cast
\* truncates
ClampCoord_no_min(c, ratio, limit) ==
    LET p == FMul(c, ratio)
    IN  IF p.kind = "nan" THEN 0
        ELSE IF p.kind = "inf" THEN (IF p.v > 0 THEN limit + 1 ELSE 0)
        ELSE Max2(p.v, 0) \div RatioScale

ClampCoord(c, ratio, limit) ==
    LET p == FMul(c, ratio)
    IN  IF p.kind = "nan" THEN 0
        ELSE IF p.kind = "inf" THEN (IF p.v > 0 THEN limit ELSE 0)
        ELSE Min2(Max2(p.v, 0), limit * RatioScale) \div RatioScale

\* remap_from_yolo(pred, size, w_ratio, h_ratio); remap_from_yolo(pred, size)
\* above is its instance for ratios size / 640 and finite coordinates
remap_from_yolo_ratios(pred, size, w_ratio, h_ratio) ==
    LET tl_x == ClampCoord(pred[1], w_ratio, size.width)
        tl_y == ClampCoord(pred[2], h_ratio, size.height)
        br_x == ClampCoord(pred[3], w_ratio, size.width)
        br_y == ClampCoord(pred[4], h_ratio, size.height)
    IN  RectFromPoints(Pt(tl_x, tl_y), Pt(br_x, br_y))

RmpInit ==
    \E x1 \in RawCoords, y1 \in RawCoords, x2 \in RawCoords, y2 \in RawCoords,
       w_ratio \in Ratios, h_ratio \in Ratios :
        rmp = [in |-> [pred |-> <<x1, y1, x2, y2>>,
                       size |-> [width |-> RemapW, height |-> RemapH],
                       w_ratio |-> w_ratio, h_ratio |-> h_ratio],
               out |-> <<>>]

\* one call of remap_from_yolo
RemapFromYolo ==
    /\ rmp.out = <<>>
    /\ rmp' = [rmp EXCEPT !.out =
                <<remap_from_yolo_ratios(rmp.in.pred, rmp.in.size,
                                         rmp.in.w_ratio, rmp.in.h_ratio)>>]
    /\ UNCHANGED <<earlyVars, lastVars, mob, txt, rune, hp, portal, lzVars, ocVars, arrVars>>

RemapInit ==
    /\ EarlyIdle
    /\ LastIdle
    /\ RmpInit
    /\ mob = None /\ txt = None /\ rune = None /\ hp = None /\ portal = None
    /\ LzIdle /\ OcIdle /\ ArrIdle

RemapNext == RemapFromYolo

SpecRemap == RemapInit /\ [][RemapNext]_vars

(***************************************************************************)
(* Health values: detect_player_health                                     *)
(***************************************************************************)
\* Bound of the recognized texts
MaxTextLen == 2

\* A text is a sequence of characters; a number is the sequence of its
\* decimal digits without leading zeros (<<0>> for zero), so that values up
\* to and beyond u32::MAX can be compared.
DigitChars == <<"0", "1", "2", "3", "4", "5", "6", "7", "8", "9">>

DigitOf(ch) == (CHOOSE d \in 1..10 : DigitChars[d] = ch) - 1

IsDigit(ch) == \E d \in 1..10 : DigitChars[d] = ch

TextOf(digits) == [i \in DOMAIN digits |-> DigitChars[digits[i] + 1]]

U32_MAX == <<4, 2, 9, 4, 9, 6, 7, 2, 9, 5>>

NumLess(a, b) ==
    \/ Len(a) < Len(b)
    \/ /\ Len(a) = Len(b)
       /\ \E i \in DOMAIN a :
            /\ a[i] < b[i]
            /\ \A j \in 1..(i - 1) : a[j] = b[j]

RECURSIVE StripZeros(_)
StripZeros(digits) ==
    IF Len(digits) > 1 /\ Head(digits) = 0 THEN StripZeros(Tail(digits))
    ELSE digits

\* value.parse::<u32>().ok(): an optional "+", then one or more ASCII
\* digits and nothing else, of a value that fits 32 bits; <<>> is None
parse_u32(text) ==
    LET body == IF text # <<>> /\ Head(text) = "+" THEN Tail(text) ELSE text
    IN  IF body = <<>> \/ \E i \in DOMAIN body : ~IsDigit(body[i])
        THEN <<>>
        ELSE LET value == StripZeros([i \in DOMAIN body |-> DigitOf(body[i])])
             IN  IF NumLess(U32_MAX, value) THEN <<>> ELSE <<value>>

\* What extract_texts returns for one bar inside the frame: no text when
\* the recognizer fails, else the one recognized text
HealthTexts ==
    SeqsUpTo({"0", "7", "+", "x"}, MaxTextLen)
        \cup { TextOf(U32_MAX), TextOf(<<4, 2, 9, 4, 9, 6, 7, 2, 9, 6>>) }

RecognizedTexts == { <<>> } \cup { <<t>> : t \in HealthTexts }

\* .first().and_then(|value| value.parse::<u32>().ok())
FirstParsed(texts) == IF texts = <<>> THEN <<>> ELSE parse_u32(Head(texts))

\* current_health.min(max_health)
ClampCurrent_none(current, max) == current

ClampCurrent(current, max) == IF NumLess(max, current) THEN max ELSE current

detect_player_health(in) ==
    LET current_health == FirstParsed(in.current)
    IN  IF current_health = <<>>
        THEN [ok |-> FALSE, err |-> "cannot detect current health"]
        ELSE LET max_health == FirstParsed(in.max)
             IN  IF max_health = <<>>
                 THEN [ok |-> FALSE, err |-> "cannot detect max health"]
                 ELSE [ok |-> TRUE,
                       current |-> ClampCurrent(current_health[1], max_health[1]),
                       max |-> max_health[1]]

HpInit ==
    \E current \in RecognizedTexts, max \in RecognizedTexts :
        hp = [in |-> [current |-> current, max |-> max], out |-> <<>>]

\* one call of detect_player_health
DetectPlayerHealth ==
    /\ hp.out = <<>>
    /\ hp' = [hp EXCEPT !.out = <<detect_player_health(hp.in)>>]
    /\ UNCHANGED <<earlyVars, lastVars, mob, txt, rune, rmp, portal, lzVars, ocVars, arrVars>>

HealthInit ==
    /\ EarlyIdle
    /\ LastIdle
    /\ HpInit
    /\ mob = None /\ txt = None /\ rune = None /\ rmp = None /\ portal = None
    /\ LzIdle /\ OcIdle /\ ArrIdle

HealthNext == DetectPlayerHealth

SpecHealth == HealthInit /\ [][HealthNext]_vars

(***************************************************************************)
(* Portals: detect_minimap_portals                                         *)
(***************************************************************************)
\* Bounds of the portal inputs: the minimap, the portal template and the
\* number of locations of the score map set apart from the background
PortalW == 20
PortalH == 12
PortalTplW == 3
PortalTplH == 2
MaxPortals == 2

PORTAL_THRESHOLD == 80
PORTAL_MARGIN == 5

\* the size of the score map of match_template
PortalMapW == PortalW - PortalTplW + 1
PortalMapH == PortalH - PortalTplH + 1

\* Locations of the score map set apart from a background of score 0: at
\* its edges and inside it, at the threshold and above it
PortalSpots ==
    [x : {0, 2, PORTAL_MARGIN, PortalMapW - 1 - PORTAL_MARGIN, PortalMapW - 1},
     y : {0, PortalMapH - 1},
     score : {PORTAL_THRESHOLD, PORTAL_THRESHOLD + 1}]

\* threshold(.., 0.8, 1.0, THRESH_BINARY): a cell is set when its score is
\* greater than the threshold
PortalHot(score) == score > PORTAL_THRESHOLD

\* find_non_zero: the set locations in row-major order
RECURSIVE RowMajor(_)
RowMajor(points) ==
    IF points = {} THEN <<>>
    ELSE LET first == CHOOSE p \in points :
                        \A q \in points :
                            p.y * PortalMapW + p.x <= q.y * PortalMapW + q.x
         IN  <<first>> \o RowMajor(points \ {first})

NonZero(spots) ==
    RowMajor({ Pt(spots[i].x, spots[i].y) : i \in
                { j \in DOMAIN spots : PortalHot(spots[j].score) } })

\* the rectangle around one location
PortalRect(point) ==
    LET size == PORTAL_MARGIN
        x == Max2(point.x - size, 0)
        xd == point.x - x
        y == Max2(point.y - size, 0)
        yd == point.y - y
        width == PortalTplW + xd * 2 + (size - xd)
        height == PortalTplH + yd * 2 + (size - yd)
    IN  Rect(x, y, width, height)

detect_minimap_portals(spots) ==
    LET points == NonZero(spots)
    IN  [i \in DOMAIN points |-> PortalRect(points[i])]

PortalInit ==
    \E spots \in SeqsUpTo(PortalSpots, MaxPortals) :
        portal = [in |-> spots, out |-> <<>>]

\* one call of detect_minimap_portals
DetectMinimapPortals ==
    /\ portal.out = <<>>
    /\ portal' = [portal EXCEPT !.out = <<detect_minimap_portals(portal.in)>>]
    /\ UNCHANGED <<earlyVars, lastVars, mob, txt, rune, rmp, hp, lzVars, ocVars, arrVars>>

PortalsInit ==
    /\ EarlyIdle
    /\ LastIdle
    /\ PortalInit
    /\ mob = None /\ txt = None /\ rune = None /\ rmp = None /\ hp = None
    /\ LzIdle /\ OcIdle /\ ArrIdle

PortalsNext == DetectMinimapPortals

SpecPortals == PortalsInit /\ [][PortalsNext]_vars

(***************************************************************************)
(* Lazily constructed assets: one `static X: LazyLock<..>` of a detector   *)
(* and the callers that dereference it (`&*X`)                             *)
(***************************************************************************)
\* Bounds: the concurrent callers and the calls each makes
NumLzCallers == 3
MaxLzCalls == 2

LzCallers == 1..NumLzCallers

\* the first caller to find the static not yet constructed runs the closure
CanConstruct_racy(state) == state.once # "complete"

CanConstruct(state) == state.once = "incomplete"

\* a caller's position `at`, the value it has of the asset (`via`) and how
\* it came to it (`path`)
LzAt(c, at, via, path) ==
    [lzPc EXCEPT ![c] = [@ EXCEPT !.at = at, !.via = via, !.path = path]]

\* `&*X` by a caller that is about to use the asset: it reads the completed
\* value, or starts the construction, or blocks while another constructs,
\* or panics on a static whose construction panicked
LzDeref(c) ==
    /\ lzPc[c].at = "idle"
    /\ lzPc[c].calls < MaxLzCalls
    /\ IF lzState.once = "complete"
       THEN /\ lzPc' = LzAt(c, "using", lzState.value, "read")
            /\ UNCHANGED <<lzState, lzRuns>>
       ELSE IF CanConstruct(lzState)
       THEN /\ lzState' = [lzState EXCEPT !.once = "running"]
            /\ lzRuns' = lzRuns + 1
            /\ lzPc' = LzAt(c, "constructing", "none", "constructed")
       ELSE IF lzState.once = "running"
       THEN /\ lzPc' = LzAt(c, "waiting", "none", "waited")
            /\ UNCHANGED <<lzState, lzRuns>>
       ELSE /\ lzPc' = LzAt(c, "panicked", "none", "read")
            /\ UNCHANGED <<lzState, lzRuns>>
    /\ UNCHANGED <<earlyVars, lastVars, pureVars, ocVars, arrVars>>

\* the closure returns: the value is stored and the static is complete
LzConstructed(c) ==
    /\ lzPc[c].at = "constructing"
    /\ lzState' = [once |-> "complete", value |-> "built"]
    /\ lzPc' = LzAt(c, "using", "built", "constructed")
    /\ UNCHANGED <<lzRuns, earlyVars, lastVars, pureVars, ocVars, arrVars>>

\* the closure panics (imdecode(..).unwrap(), .expect(..)): the static is
\* poisoned and holds no value
LzConstructPanics(c) ==
    /\ lzPc[c].at = "constructing"
    /\ lzState' = [lzState EXCEPT !.once = "poisoned"]
    /\ lzPc' = LzAt(c, "panicked", "none", "constructed")
    /\ UNCHANGED <<lzRuns, earlyVars, lastVars, pureVars, ocVars, arrVars>>

\* a blocked caller goes on once the construction has ended
LzWake(c) ==
    /\ lzPc[c].at = "waiting"
    /\ lzState.once \in {"complete", "poisoned"}
    /\ lzPc' = IF lzState.once = "complete"
               THEN LzAt(c, "using", lzState.value, "waited")
               ELSE LzAt(c, "panicked", "none", "waited")
    /\ UNCHANGED <<lzState, lzRuns, earlyVars, lastVars, pureVars, ocVars, arrVars>>

\* the detector call that used the asset returns
LzReturn(c) ==
    /\ lzPc[c].at = "using"
    /\ lzPc' = [lzPc EXCEPT ![c] = [at |-> "idle", via |-> @.via,
                                    path |-> @.path,
                                    calls |-> @.calls + 1]]
    /\ UNCHANGED <<lzState, lzRuns, earlyVars, lastVars, pureVars, ocVars, arrVars>>

LzInit ==
    /\ lzState = [once |-> "incomplete", value |-> "uninit"]
    /\ lzPc = [c \in LzCallers |-> [at |-> "idle", via |-> "none",
                                path |-> "none", calls |-> 0]]
    /\ lzRuns = 0

LazyInit ==
    /\ EarlyIdle
    /\ LastIdle
    /\ PureIdle
    /\ LzInit
    /\ OcIdle /\ ArrIdle

LazyNext ==
    \E c \in LzCallers :
        \/ LzDeref(c)
        \/ LzConstructed(c)
        \/ LzConstructPanics(c)
        \/ LzWake(c)
        \/ LzReturn(c)

SpecLazy == LazyInit /\ [][LazyNext]_vars

(***************************************************************************)
(* Text recognition: extract_texts under TEXT_RECOGNITION_MODEL's mutex,   *)
(* called twice by each detect_player_health                               *)
(***************************************************************************)
\* Bound: the concurrent callers of detect_player_health
NumOcCallers == 3

OcCallers == 1..NumOcCallers

\* Mutex::lock blocks until no thread holds the mutex
MutexFree_always(mutex) == TRUE

MutexFree(mutex) == mutex.holder = 0

OcAt(c, at) == [ocPc EXCEPT ![c] = [@ EXCEPT !.at = at]]

\* detect_player_health calls extract_texts(mat, &[current_bar]); `left` is
\* the number of rectangles of the slice still to be recognized
OcCallHealth(c) ==
    /\ ocPc[c].at = "idle"
    /\ ocPc' = [ocPc EXCEPT ![c] = [at |-> "call", call |-> 1, left |-> 1]]
    /\ UNCHANGED <<ocMutex, ocLog, earlyVars, lastVars, pureVars, lzVars, arrVars>>

\* TEXT_RECOGNITION_MODEL.lock().unwrap(): the caller gets the mutex once it
\* is free; on a poisoned mutex lock() is an Err and unwrap panics, which
\* drops the guard again
OcLock(c) ==
    /\ ocPc[c].at = "call"
    /\ MutexFree(ocMutex)
    /\ IF ocMutex.poisoned
       THEN /\ ocPc' = OcAt(c, "panicked")
            /\ UNCHANGED ocMutex
       ELSE /\ ocPc' = OcAt(c, "locked")
            /\ ocMutex' = [ocMutex EXCEPT !.holder = c]
    /\ UNCHANGED <<ocLog, earlyVars, lastVars, pureVars, lzVars, arrVars>>

\* the next rectangle: mat.roi(word).unwrap(), the colour conversion and
\* the start of recognizier.recognize(&mat)
OcRecognize(c) ==
    /\ ocPc[c].at = "locked"
    /\ ocPc[c].left > 0
    /\ ocPc' = OcAt(c, "recognizing")
    /\ ocLog' = Append(ocLog, [caller |-> c, call |-> ocPc[c].call,
                              event |-> "start"])
    /\ UNCHANGED <<ocMutex, earlyVars, lastVars, pureVars, lzVars, arrVars>>

\* mat.roi(word).unwrap() on a rectangle outside the frame: the panic drops
\* the guard, which poisons the mutex
OcRoiPanics(c) ==
    /\ ocPc[c].at = "locked"
    /\ ocPc[c].left > 0
    /\ ocPc' = OcAt(c, "panicked")
    /\ ocMutex' = [holder |-> 0, poisoned |-> TRUE]
    /\ UNCHANGED <<ocLog, earlyVars, lastVars, pureVars, lzVars, arrVars>>

\* recognize returns (its text, or an Err that filter_map drops)
OcRecognized(c) ==
    /\ ocPc[c].at = "recognizing"
    /\ ocPc' = [ocPc EXCEPT ![c] = [@ EXCEPT !.at = "locked",
                                             !.left = @ - 1]]
    /\ ocLog' = Append(ocLog, [caller |-> c, call |-> ocPc[c].call,
                              event |-> "end"])
    /\ UNCHANGED <<ocMutex, earlyVars, lastVars, pureVars, lzVars, arrVars>>

\* extract_texts returns and drops the guard; detect_player_health goes on
\* to extract_texts(mat, &[max_bar]) after the current bar, or returns
\* (after the max bar, or with an Err when the current text did not parse)
OcReturn(c) ==
    /\ ocPc[c].at = "locked"
    /\ ocPc[c].left = 0
    /\ ocMutex' = [ocMutex EXCEPT !.holder = 0]
    /\ \/ /\ ocPc[c].call = 1
          /\ ocPc' = [ocPc EXCEPT ![c] =
                        [at |-> "call", call |-> 2, left |-> 1]]
       \/ ocPc' = OcAt(c, "done")
    /\ UNCHANGED <<ocLog, earlyVars, lastVars, pureVars, lzVars, arrVars>>

OcInit ==
    /\ ocMutex = [holder |-> 0, poisoned |-> FALSE]
    /\ ocPc = [c \in OcCallers |-> [at |-> "idle", call |-> 0, left |-> 0]]
    /\ ocLog = <<>>

RecognizerInit ==
    /\ EarlyIdle
    /\ LastIdle
    /\ PureIdle
    /\ LzIdle
    /\ OcInit
    /\ ArrIdle

RecognizerNext ==
    \E c \in OcCallers :
        \/ OcCallHealth(c)
        \/ OcLock(c)
        \/ OcRecognize(c)
        \/ OcRoiPanics(c)
        \/ OcRecognized(c)
        \/ OcReturn(c)

SpecRecognizer == RecognizerInit /\ [][RecognizerNext]_vars

(***************************************************************************)
(* Array<T, N> (array.rs)                                                  *)
(***************************************************************************)
\* Bounds: the capacity N, the values stored and the operations of one run
ArrayN == 3
MaxArrValue == 2
MaxArrOps == 4

ArrValues == 1..MaxArrValue

\* Option<T>: <<>> is None, <<v>> is Some(v)
Some(v) == <<v>>

\* Array::new(): inner = [None; N], len = 0
ArrayNew == [inner |-> [j \in 0..(ArrayN - 1) |-> <<>>], len |-> 0]

\* the slot push writes: `let index = self.len`
PushSlot_first(len) == 0

PushSlot(len) == len

\* `assert!(self.len < N)` of Array::push
PushAllowed_le(len) == len <= ArrayN

PushAllowed(len) == len < ArrayN

\* `assert!(index < self.len)` of Array::remove
RemoveAllowed_any(index, len) == TRUE

RemoveAllowed(index, len) == index < len

\* Array::push past its assertion
ArrayPush(arr, value) ==
    [inner |-> [arr.inner EXCEPT ![PushSlot(arr.len)] = Some(value)],
     len |-> arr.len + 1]

\* the loop `for i in index..N.saturating_sub(1)` of Array::remove, from i
RECURSIVE RemoveShift(_, _)
RemoveShift(inner, i) ==
    IF i >= ArrayN - 1 THEN inner
    ELSE RemoveShift([inner EXCEPT ![i] = inner[i + 1], ![i + 1] = <<>>],
                     i + 1)

\* Array::remove past its assertion
ArrayRemove_no_shift(arr, index) ==
    [inner |-> [arr.inner EXCEPT ![index] = <<>>], len |-> arr.len - 1]

ArrayRemove(arr, index) ==
    [inner |-> RemoveShift([arr.inner EXCEPT ![index] = <<>>], index),
     len |-> arr.len - 1]

\* `for item in self` of Array::clone, from the iterator's index on: the
\* iterator ends at index >= len or at an empty slot, and every item is
\* pushed into the new array
RECURSIVE CloneLoop(_, _, _)
CloneLoop(arr, index, array) ==
    IF index >= arr.len \/ arr.inner[index] = <<>> THEN array
    ELSE CloneLoop(arr, index + 1, ArrayPush(array, arr.inner[index][1]))

\* Array::clone
ArrayClone(arr) == CloneLoop(arr, 0, ArrayNew)

\* PartialEq::eq: `self.inner == other.inner`
ArrayEq(a, b) == a.inner = b.inner

\* Deref::deref: the slots `inner[0..len]`, read as values
ArrayDeref(arr) == [j \in 1..arr.len |-> arr.inner[j - 1]]

\* a panic (a failed assertion) ends the run
ArrPanicked == arrHist # <<>> /\ arrHist[Len(arrHist)].op = "panic"

ArrCanMutate ==
    /\ ~ArrPanicked
    /\ arrIter.kind = "none"
    /\ Len(arrHist) < MaxArrOps

ArrNoIter == [kind |-> "none", index |-> 0, out |-> <<>>, ended |-> FALSE]

ArrOthers == UNCHANGED <<earlyVars, lastVars, pureVars, lzVars, ocVars>>

\* array.push(value)
ArrPush(value) ==
    /\ ArrCanMutate
    /\ IF PushAllowed(arrLen)
       THEN LET arr == ArrayPush([inner |-> arrInner, len |-> arrLen], value)
            IN  /\ arrInner' = arr.inner
                /\ arrLen' = arr.len
                /\ arrHist' = Append(arrHist, [op |-> "push", arg |-> value])
       ELSE /\ arrHist' = Append(arrHist,
                        [op |-> "panic", arg |-> value, by |-> "push"])
            /\ UNCHANGED <<arrInner, arrLen>>
    /\ UNCHANGED <<arrIter, arrOther>>
    /\ ArrOthers

\* array.remove(index)
ArrRemove(index) ==
    /\ ArrCanMutate
    /\ IF RemoveAllowed(index, arrLen)
       THEN LET arr == ArrayRemove([inner |-> arrInner, len |-> arrLen], index)
            IN  /\ arrInner' = arr.inner
                /\ arrLen' = arr.len
                /\ arrHist' = Append(arrHist, [op |-> "remove", arg |-> index])
       ELSE /\ arrHist' = Append(arrHist,
                        [op |-> "panic", arg |-> index, by |-> "remove"])
            /\ UNCHANGED <<arrInner, arrLen>>
    /\ UNCHANGED <<arrIter, arrOther>>
    /\ ArrOthers

\* Array::from_iter(items): a new array and one push per item
RECURSIVE FromIterLoop(_, _, _)
FromIterLoop(arr, hist, items) ==
    IF items = <<>> THEN [arr |-> arr, hist |-> hist]
    ELSE IF PushAllowed(arr.len)
    THEN FromIterLoop(ArrayPush(arr, Head(items)),
                      Append(hist, [op |-> "push", arg |-> Head(items)]),
                      Tail(items))
    ELSE [arr |-> arr,
          hist |-> Append(hist, [op |-> "panic", arg |-> Head(items),
                                 by |-> "push"])]

ArrFromIter ==
    /\ ArrCanMutate
    /\ arrHist = <<>>
    /\ \E items \in SeqsUpTo(ArrValues, ArrayN + 1) :
        LET done == FromIterLoop(ArrayNew, <<>>, items)
        IN  /\ items # <<>>
            /\ arrInner' = done.arr.inner
            /\ arrLen' = done.arr.len
            /\ arrHist' = done.hist
    /\ UNCHANGED <<arrIter, arrOther>>
    /\ ArrOthers

\* let other = array.clone()
ArrClone ==
    /\ ~ArrPanicked
    /\ arrIter.kind = "none"
    /\ arrOther = <<>>
    /\ arrOther' = <<ArrayClone([inner |-> arrInner, len |-> arrLen])>>
    /\ UNCHANGED <<arrInner, arrLen, arrHist, arrIter>>
    /\ ArrOthers

\* array.iter() / (&array).into_iter(), or array.into_iter()
ArrMakeIter(kind) ==
    /\ ~ArrPanicked
    /\ arrIter.kind = "none"
    /\ arrIter' = [kind |-> kind, index |-> 0, out |-> <<>>, ended |-> FALSE]
    /\ UNCHANGED <<arrInner, arrLen, arrHist, arrOther>>
    /\ ArrOthers

\* ArrayIterator::next: inner[index].as_ref()
\* ArrayIntoIterator::next: inner[index].take()
\* A None slot below len ends the iteration for the caller like the None
\* past len.
ArrIterNext ==
    /\ arrIter.kind \in {"iter", "into_iter"}
    /\ ~arrIter.ended
    /\ IF arrIter.index >= arrLen
       THEN /\ arrIter' = [arrIter EXCEPT !.ended = TRUE]
            /\ UNCHANGED arrInner
       ELSE LET index == arrIter.index
                item == arrInner[index]
            IN  /\ arrIter' = [arrIter EXCEPT
                                !.index = index + 1,
                                !.out = @ \o item,
                                !.ended = (item = <<>>)]
                /\ arrInner' = IF arrIter.kind = "into_iter"
                               THEN [arrInner EXCEPT ![index] = <<>>]
                               ELSE arrInner
    /\ UNCHANGED <<arrLen, arrHist, arrOther>>
    /\ ArrOthers

\* the borrowing iterator goes out of scope; the array can be changed again
ArrIterDrop ==
    /\ arrIter.kind = "iter"
    /\ arrIter' = ArrNoIter
    /\ UNCHANGED <<arrInner, arrLen, arrHist, arrOther>>
    /\ ArrOthers

ArrInit ==
    /\ arrInner = ArrayNew.inner
    /\ arrLen = ArrayNew.len
    /\ arrHist = <<>>
    /\ arrIter = ArrNoIter
    /\ arrOther = <<>>

ArrayInit ==
    /\ EarlyIdle
    /\ LastIdle
    /\ PureIdle
    /\ LzIdle
    /\ OcIdle
    /\ ArrInit

ArrayNext ==
    \/ \E value \in ArrValues : ArrPush(value)
    \/ \E index \in 0..ArrayN : ArrRemove(index)
    \/ ArrFromIter
    \/ ArrClone
    \/ \E kind \in {"iter", "into_iter"} : ArrMakeIter(kind)
    \/ ArrIterNext
    \/ ArrIterDrop

SpecArray == ArrayInit /\ [][ArrayNext]_vars

(***************************************************************************)
(* detect_player_buff                                                      *)
(***************************************************************************)
\* Bounds: the buff tray and the buff templates (the two potion templates
\* share one mask and so one size)
BuffTrayW == 4
BuffTrayH == 1
BuffTplW == 2
BuffTplH == 1

\* the threshold of the potion kinds and of Rune, in hundredths
BUFF_THRESHOLD == 75

BuffMapW == BuffTrayW - BuffTplW + 1
BuffMapH == BuffTrayH - BuffTplH + 1

BuffKinds == {"WealthAcquisitionPotion", "ExpAccumulationPotion", "Rune"}

PotionKinds == {"WealthAcquisitionPotion", "ExpAccumulationPotion"}

BuffScores == {BUFF_THRESHOLD - 1, BUFF_THRESHOLD, BUFF_THRESHOLD + 15}

\* the score maps of one template on the tray: background 0 and at most two
\* cells near or above the threshold
BuffScoreMaps ==
    { [c \in Cells(BuffMapW, BuffMapH) |->
            IF c = p1 THEN s1 ELSE IF c = p2 THEN s2 ELSE 0] :
        p1 \in Cells(BuffMapW, BuffMapH), p2 \in Cells(BuffMapW, BuffMapH),
        s1 \in BuffScores, s2 \in BuffScores }

\* the arguments detect_player_buff hands to the template matcher
BuffMatchInput(result, max_matches) ==
    [tw |-> BuffTplW, th |-> BuffTplH, mw |-> BuffMapW, mh |-> BuffMapH,
     result |-> result, offset |-> Pt(0, 0),
     max_matches |-> max_matches, threshold |-> BUFF_THRESHOLD]

\* .into_iter().filter_map(|result| result.ok()).collect()
RECURSIVE FilterOk(_)
FilterOk(list) ==
    IF list = <<>> THEN <<>>
    ELSE IF Head(list).ok THEN <<Head(list)>> \o FilterOk(Tail(list))
    ELSE FilterOk(Tail(list))

\* `match_other.is_err() || match_other.unwrap().1 < match_current.1`
OtherIsAbsent(match_other, match_current) ==
    ~match_other.ok \/ match_other.score < match_current.score

BuffReturned(active, matches) ==
    [status |-> "returned", active |-> active, matches |-> matches]

\* detect_player_buff(mat, kind); in.result is the score map of the kind's
\* own template and in.other that of the other potion's template
detect_player_buff(in) ==
    IF in.kind \in PotionKinds
    THEN LET multi == detect_template_multiple(BuffMatchInput(in.result, 2))
             matches == FilterOk(multi.list)
         IN  IF multi.status = "aborted"
             THEN [status |-> "aborted", active |-> FALSE,
                   matches |-> matches]
             ELSE IF matches = <<>> THEN BuffReturned(FALSE, matches)
             ELSE IF Len(matches) = 2 THEN BuffReturned(TRUE, matches)
             ELSE LET match_current == Head(matches)
                      match_other ==
                          detect_template_single(BuffMatchInput(in.other, 1))
                  IN  BuffReturned(OtherIsAbsent(match_other, match_current),
                                   matches)
    ELSE LET single == detect_template_single(BuffMatchInput(in.result, 1))
         IN  BuffReturned(single.ok, FilterOk(<<single>>))

BuffInit ==
    \E kind \in BuffKinds, result \in BuffScoreMaps, other \in BuffScoreMaps :
        buff = [in |-> [kind |-> kind, result |-> result, other |-> other],
                out |-> <<>>]

\* one call of detect_player_buff
DetectPlayerBuff ==
    /\ buff.out = <<>>
    /\ buff' = [buff EXCEPT !.out = <<detect_player_buff(buff.in)>>]
    /\ UNCHANGED <<earlyVars, pureVars, lzVars, ocVars, arrVars, cdVars>>

BuffsInit ==
    /\ EarlyIdle
    /\ PureIdle
    /\ LzIdle
    /\ OcIdle
    /\ ArrIdle
    /\ CdIdle
    /\ BuffInit

BuffsNext == DetectPlayerBuff

SpecBuffs == BuffsInit /\ [][BuffsNext]_vars

(***************************************************************************)
(* CachedDetector: the derived representations of one frame                *)
(***************************************************************************)
\* Bounds: the calls of one thread and the frames of one run
MaxCdCalls == 2
MaxCdFrames == 2

\* the threads of the program, each with a clone of the detector
CdThreads == {"update", "render"}

\* the LazyLock fields of CachedDetector
CdCells == {"grayscale", "buffs_grayscale"}

\* the derived representations: the two cached ones and the BGR buff-tray
\* crop of detect_player_buff's colour kinds
CdReps == CdCells \cup {"buffs_bgr"}

\* The Detector methods by what they derive from the frame: detect_mobs
\* uses the frame as it is, detect_player the grayscale frame,
\* detect_player_buff the grayscale buff-tray crop (Rune, the elixirs, the
\* coupons) or the BGR buff-tray crop (the legion buffs and the potions)
CdMethods ==
    {"detect_mobs", "detect_player", "detect_player_buff_gray",
     "detect_player_buff_bgr"}

\* what a method derefs first
CdFirstCell(method) ==
    IF method = "detect_player" THEN "grayscale" ELSE "buffs_grayscale"

\* the representations a method needs, directly or through a closure
CdNeeds(method) ==
    CASE method = "detect_mobs" -> {}
      [] method = "detect_player" -> {"grayscale"}
      [] method = "detect_player_buff_gray" -> {"grayscale", "buffs_grayscale"}
      [] method = "detect_player_buff_bgr" -> {"buffs_bgr"}

\* CachedDetector::new: both cells not yet computed
CdNewCells == [c \in CdCells |-> "incomplete"]

CdNoRuns == [runs |-> [r \in CdReps |-> 0], needed |-> {}]

CdIdlePc(calls) ==
    [at |-> "idle", method |-> "none", cell |-> "none", building |-> <<>>,
     calls |-> calls]

CdOthers == UNCHANGED <<earlyVars, pureVars, lzVars, ocVars, arrVars, buff>>

\* the first caller to find a cell not yet computed runs its closure
CdCanCompute(state) == state = "incomplete"

\* a thread has the value of cell c: it goes on with the closure that asked
\* for it, or with the detection
CdGot(t, c) ==
    IF cdPc[t].building # <<>>
    THEN [cdPc EXCEPT ![t] = [@ EXCEPT !.at = "build",
                                       !.cell = Head(cdPc[t].building),
                                       !.building = Tail(@)]]
    ELSE [cdPc EXCEPT ![t] = [@ EXCEPT !.at = "run", !.cell = "none"]]

\* a thread calls a method of its clone
CdCall(t, method) ==
    /\ cdPc[t].at = "idle"
    /\ cdPc[t].calls < MaxCdCalls
    /\ cdPc' = [cdPc EXCEPT ![t] =
                    [@ EXCEPT !.method = method,
                              !.at = CASE method = "detect_mobs" -> "run"
                                       [] method = "detect_player_buff_bgr"
                                            -> "crop"
                                       [] OTHER -> "deref",
                              !.cell = IF method \in {"detect_mobs",
                                                     "detect_player_buff_bgr"}
                                       THEN "none" ELSE CdFirstCell(method)]]
    /\ cdRuns' = [cdRuns EXCEPT !.needed = @ \cup CdNeeds(method)]
    /\ UNCHANGED <<cdCell, cdFrames>>
    /\ CdOthers

\* `&**self.grayscale`, `&**self.buffs_grayscale`: the dereference of a
\* LazyLock; the closure of buffs_grayscale starts with `&**buffs_grayscale`,
\* the dereference of the grayscale cell
CdDeref(t) ==
    /\ cdPc[t].at = "deref"
    /\ LET c == cdPc[t].cell
       IN  IF cdCell[c] = "complete"
           THEN /\ cdPc' = CdGot(t, c)
                /\ UNCHANGED <<cdCell, cdRuns>>
           ELSE IF CdCanCompute(cdCell[c])
           THEN /\ cdCell' = [cdCell EXCEPT ![c] = "running"]
                /\ cdRuns' = [cdRuns EXCEPT !.runs[c] = @ + 1]
                /\ cdPc' = IF c = "buffs_grayscale"
                           THEN [cdPc EXCEPT ![t] =
                                    [@ EXCEPT !.at = "deref",
                                              !.cell = "grayscale",
                                              !.building = <<c>> \o @]]
                           ELSE [cdPc EXCEPT ![t] = [@ EXCEPT !.at = "build"]]
           ELSE /\ cdPc' = [cdPc EXCEPT ![t] = [@ EXCEPT !.at = "wait"]]
                /\ UNCHANGED <<cdCell, cdRuns>>
    /\ UNCHANGED cdFrames
    /\ CdOthers

\* the closure of a cell returns (to_grayscale, or the crop's clone_pointee)
CdBuilt(t) ==
    /\ cdPc[t].at = "build"
    /\ cdCell' = [cdCell EXCEPT ![cdPc[t].cell] = "complete"]
    /\ cdPc' = CdGot(t, cdPc[t].cell)
    /\ UNCHANGED <<cdRuns, cdFrames>>
    /\ CdOthers

\* a thread blocked on a cell goes on once the cell is complete
CdWake(t) ==
    /\ cdPc[t].at = "wait"
    /\ cdCell[cdPc[t].cell] = "complete"
    /\ cdPc' = CdGot(t, cdPc[t].cell)
    /\ UNCHANGED <<cdCell, cdRuns, cdFrames>>
    /\ CdOthers

\* `&to_bgr(&crop_to_buffs_region(&*self.mat))` of detect_player_buff
CdCropBgr(t) ==
    /\ cdPc[t].at = "crop"
    /\ cdRuns' = [cdRuns EXCEPT !.runs["buffs_bgr"] = @ + 1]
    /\ cdPc' = [cdPc EXCEPT ![t] = [@ EXCEPT !.at = "run"]]
    /\ UNCHANGED <<cdCell, cdFrames>>
    /\ CdOthers

\* the detection returns
CdReturn(t) ==
    /\ cdPc[t].at = "run"
    /\ cdPc' = [cdPc EXCEPT ![t] = CdIdlePc(cdPc[t].calls + 1)]
    /\ UNCHANGED <<cdCell, cdRuns, cdFrames>>
    /\ CdOthers

\* the next frame: CachedDetector::new(mat) and a clone for each thread
CdNew ==
    /\ cdFrames < MaxCdFrames
    /\ \A t \in CdThreads : cdPc[t].at = "idle"
    /\ cdFrames' = cdFrames + 1
    /\ cdCell' = CdNewCells
    /\ cdRuns' = CdNoRuns
    /\ cdPc' = [t \in CdThreads |-> CdIdlePc(0)]
    /\ CdOthers

CdInit ==
    /\ cdFrames = 1
    /\ cdCell = CdNewCells
    /\ cdRuns = CdNoRuns
    /\ cdPc = [t \in CdThreads |-> CdIdlePc(0)]

CachedInit ==
    /\ EarlyIdle
    /\ PureIdle
    /\ LzIdle
    /\ OcIdle
    /\ ArrIdle
    /\ BuffIdle
    /\ CdInit

CachedNext ==
    \/ \E t \in CdThreads, method \in CdMethods : CdCall(t, method)
    \/ \E t \in CdThreads : CdDeref(t)
    \/ \E t \in CdThreads : CdBuilt(t)
    \/ \E t \in CdThreads : CdWake(t)
    \/ \E t \in CdThreads : CdCropBgr(t)
    \/ \E t \in CdThreads : CdReturn(t)
    \/ CdNew

SpecCached == CachedInit /\ [][CachedNext]_vars

Init ==
    /\ TmInit
    /\ FlagInit
    /\ calLog = <<>>
    /\ RcIdle
    /\ MmIdle
    /\ LaterIdle

Next == TmNext

Spec == Init /\ [][Next]_vars

(***************************************************************************)
(* Claims about the template matcher (checked under Spec)                  *)
(***************************************************************************)
\* r is what the claim says a single match returns on the inputs in: for a
\* cell c holding the global maximum, NotFound with that score when the
\* score is strictly below the threshold, else the template-sized rectangle
\* at c + offset with the score.
IsSingleMatchOf(r, in) ==
    \E c \in DOMAIN in.result :
        /\ \A d \in DOMAIN in.result : in.result[d] <= in.result[c]
        /\ IF in.result[c] < in.threshold
           THEN r = [ok |-> FALSE, score |-> in.result[c]]
           ELSE r = [ok |-> TRUE, score |-> in.result[c],
                     rect |-> [x |-> c[1] + in.offset.x,
                               y |-> c[2] + in.offset.y,
                               width |-> in.tw, height |-> in.th]]

\* C1: a single match (max_matches 0 or 1, and detect_template_single)
\* returns one entry: NotFound with the global maximum's score when that
\* score is strictly below the threshold, otherwise the rectangle at the
\* maximum's location plus offset, of the template's size, with the score;
\* max_matches 0 and 1 both return exactly what detect_template_single
\* returns.
C1_SingleMatch ==
    /\ \A i \in DOMAIN tmSingle : IsSingleMatchOf(tmSingle[i], tmIn)
    /\ \A i \in DOMAIN tmOut :
            tmIn.max_matches <= 1 =>
                /\ tmOut[i].status = "returned"
                /\ Len(tmOut[i].list) = 1
                /\ IsSingleMatchOf(tmOut[i].list[1], tmIn)
                /\ tmSingle # <<>> => tmOut[i].list = tmSingle

\* C1 witness: max_matches = 0, a non-zero offset, and a maximum equal to
\* the threshold that was accepted by both entry points.
C1_Witness ==
    /\ tmOut # <<>> /\ tmSingle # <<>>
    /\ tmIn.max_matches = 0
    /\ tmIn.offset # Pt(0, 0)
    /\ MaxVal(tmIn.result) = tmIn.threshold
    /\ tmSingle[1].ok
    /\ tmOut[1].list[1].ok

\* C2 (as claimed): with max_matches > 1 the returned list holds at most
\* one NotFound entry, and that entry is the last element.
C2_AtMostOneNotFound ==
    \A i \in DOMAIN tmOut :
        (tmIn.max_matches > 1 /\ tmOut[i].status = "returned") =>
            LET list == tmOut[i].list
                fails == { j \in DOMAIN list : ~list[j].ok }
            IN  /\ Cardinality(fails) <= 1
                /\ \A j \in fails : j = Len(list)

\* The cells of the score map that hold an unmodified instance of the
\* template: the cells at the top score.
Instances(in) == { c \in DOMAIN in.result : in.result[c] = ScoreMax }

InstanceRect(c, in) == [x |-> c[1], y |-> c[2], width |-> in.tw, height |-> in.th]

\* the source holds k >= 2 pairwise non-overlapping instances, and the call
\* asks for k matches with a positive threshold and no offset
KInstances(in) ==
    /\ Cardinality(Instances(in)) >= 2
    /\ in.max_matches = Cardinality(Instances(in))
    /\ in.threshold > 0 /\ in.threshold <= ScoreMax
    /\ in.offset = Pt(0, 0)
    /\ \A c, d \in Instances(in) :
            c # d => ~RectsOverlap(InstanceRect(c, in), InstanceRect(d, in))

\* C3 (as claimed): for a source with k non-overlapping instances queried
\* with max_matches = k, the call returns k accepted rectangles, one per
\* instance, distinct and pairwise non-overlapping.
C3_KDisjointMatches ==
    \A i \in DOMAIN tmOut :
        KInstances(tmIn) =>
            LET list == tmOut[i].list
            IN  /\ tmOut[i].status = "returned"
                /\ Len(list) = tmIn.max_matches
                /\ \A j \in DOMAIN list : list[j].ok
                /\ { list[j].rect : j \in DOMAIN list }
                        = { InstanceRect(c, tmIn) : c \in Instances(tmIn) }
                /\ \A j, k \in DOMAIN list :
                        j # k => ~RectsOverlap(list[j].rect, list[k].rect)

(***************************************************************************)
(* Claims about the calibration flags                                      *)
(***************************************************************************)
Calibrated == {"detect_player", "detect_player_health_bars"}

FlagOf(det) == IF det = "detect_player" THEN "player" ELSE "hp"

OtherFlagOf(det) == IF det = "detect_player" THEN "hp" ELSE "player"

\* the variant a detector is meant to try when its flag reads v
VariantOf(det, v) ==
    IF det = "detect_player"
    THEN (IF v THEN "PLAYER_IDEAL_RATIO" ELSE "PLAYER_DEFAULT_RATIO")
    ELSE (IF v THEN "HP_SEPARATOR_1" ELSE "HP_SEPARATOR_2")

\* j is the first call after i of the same detector
NextCallOf(i, j) ==
    /\ i < j
    /\ calLog[j].det = calLog[i].det
    /\ \A k \in (i + 1)..(j - 1) : calLog[k].det # calLog[i].det

\* C4 (sequential callers): a call of detect_player or
\* detect_player_health_bars reads its flag once and makes one attempt, with
\* the variant that value selects; its flag changes if and only if that
\* attempt fails, also when a later step of the call fails; the other flag
\* and the calls of other detectors change nothing; so the next call of the
\* same detector reads the value the previous one left and, after a failed
\* attempt, tries the other variant, whatever calls came in between.
C4_CalibrationToggle ==
    \A i \in DOMAIN calLog :
        LET r == calLog[i]
        IN  IF r.det \in Calibrated
            THEN /\ r.read = <<r.before[FlagOf(r.det)]>>
                 /\ r.attempts = <<VariantOf(r.det, r.read[1])>>
                 /\ (r.after[FlagOf(r.det)] # r.before[FlagOf(r.det)])
                        <=> ~r.attemptOk
                 /\ r.after[OtherFlagOf(r.det)] = r.before[OtherFlagOf(r.det)]
                 /\ (~r.attemptOk) => r.result = "err"
                 /\ \A j \in DOMAIN calLog :
                        NextCallOf(i, j) =>
                            /\ calLog[j].read = <<r.after[FlagOf(r.det)]>>
                            /\ (~r.attemptOk) =>
                                    calLog[j].attempts # r.attempts
            ELSE r.after = r.before

\* C4 witness: a detect_player call fails, calls of other detectors follow
\* (one of them a health-bar call whose later step fails with its flag left
\* alone), and the next detect_player call tries the other variant.
C4_Witness ==
    /\ Len(calLog) >= 3
    /\ calLog[1].det = "detect_player" /\ ~calLog[1].attemptOk
    /\ calLog[2].det = "detect_player_health_bars"
    /\ calLog[2].attemptOk /\ calLog[2].result = "err"
    /\ calLog[2].after = calLog[2].before
    /\ calLog[3].det = "detect_player"
    /\ calLog[3].attempts # calLog[1].attempts

\* the frame matches exactly one player variant: the ideal-ratio one when
\* ideal, the default-ratio one otherwise
OnlyVariantMatches(frame, ideal) ==
    /\ (frame.PLAYER_IDEAL_RATIO >= PLAYER_IDEAL_RATIO_THRESHOLD) = ideal
    /\ (frame.PLAYER_DEFAULT_RATIO >= PLAYER_DEFAULT_RATIO_THRESHOLD) = ~ideal

\* C5 (sequential callers): over detect_player calls on frames where exactly
\* one variant, the same on each frame, matches, a call that follows another
\* such call succeeds: at most the first call of the run fails, whatever the
\* flag was, and after a success every later call succeeds.
C5_SelfCorrection ==
    \A i, j \in DOMAIN calLog :
        \A ideal \in BOOLEAN :
            (/\ calLog[i].det = "detect_player"
             /\ NextCallOf(i, j)
             /\ OnlyVariantMatches(calLog[i].frame, ideal)
             /\ OnlyVariantMatches(calLog[j].frame, ideal))
                => calLog[j].result = "ok"

\* C5 witness: three detect_player calls on frames that match only the
\* ideal-ratio template: the first fails, the second and third succeed.
C5_Witness ==
    /\ Len(calLog) >= 3
    /\ \A i \in 1..3 :
            /\ calLog[i].det = "detect_player"
            /\ OnlyVariantMatches(calLog[i].frame, TRUE)
    /\ calLog[1].result = "err"
    /\ calLog[2].result = "ok"
    /\ calLog[3].result = "ok"

\* C6 (concurrent callers, frames where only the variant of the client's
\* scale matches): no caller fails more than once; the flag is one of the
\* two variants; once a failed call has stored, the flag selects the
\* matching variant and no later store moves it back; and when all calls
\* have completed the flag selects the matching variant.
C6_RaceTolerance ==
    /\ WAS_IDEAL_RATIO \in BOOLEAN
    /\ \A c \in DOMAIN rcFails : rcFails[c] <= 1
    /\ (\E c \in DOMAIN rcFails : rcFails[c] >= 1) => WAS_IDEAL_RATIO = rcScale
    /\ ((\A c \in DOMAIN rcPc : rcPc[c] = "idle")
            /\ (\E c \in DOMAIN rcCalls : rcCalls[c] >= 1))
                => WAS_IDEAL_RATIO = rcScale

\* C6 witness: two callers both failed on the same stale value, every call
\* has completed and the flag selects the matching variant.
C6_Witness ==
    /\ Cardinality({ c \in DOMAIN rcFails : rcFails[c] = 1 }) >= 2
    /\ \A c \in DOMAIN rcPc :
            rcPc[c] = "idle" /\ rcCalls[c] = MaxCallsPerCaller
    /\ WAS_IDEAL_RATIO = rcScale

\* C7 (as claimed): every load of a calibration flag is an Acquire load and
\* every store a Release store.
C7_AcquireRelease ==
    \A i \in DOMAIN calLog :
        \A k \in DOMAIN calLog[i].accesses :
            LET a == calLog[i].accesses[k]
            IN  /\ a.op = "load" => a.ordering = "Acquire"
                /\ a.op = "store" => a.ordering = "Release"

(***************************************************************************)
(* Claims about the minimap locator (checked under SpecMinimap)            *)
(***************************************************************************)
\* C8: the rectangle a successful detect_minimap returns lies within the
\* expanded candidate rectangle: its left and top edges are not before the
\* expanded rectangle's, its right and bottom edges not past them.
C8_MinimapContained ==
    mmResult.status = "ok" =>
        LET r == mmResult.rect
            e == mmExpanded[1]
        IN  /\ e.x <= r.x
            /\ e.y <= r.y
            /\ r.x + r.width <= e.x + e.width
            /\ r.y + r.height <= e.y + e.height

\* C8 witness: a successful run that voted a border of at least one pixel
\* under a non-zero threshold, on a contour away from the expanded
\* rectangle's left and top edges.
C8_Witness ==
    /\ mmResult.status = "ok"
    /\ mmThr > 0
    /\ mmVote[1].count >= 1
    /\ mmContour[1].x > mmExpanded[1].x
    /\ mmContour[1].y > mmExpanded[1].y
    /\ mmResult.rect.width > 0 /\ mmResult.rect.height > 0

\* C9 (as claimed): the rectangle a successful detect_minimap returns has
\* non-negative width and height; twice the voted thickness never exceeds
\* the contour's width or height.
C9_NonNegativeSize ==
    mmResult.status = "ok" =>
        /\ mmResult.rect.width >= 0
        /\ mmResult.rect.height >= 0
        /\ 2 * mmVote[1].count <= mmContour[1].width
        /\ 2 * mmVote[1].count <= mmContour[1].height

\* C10 (as claimed): detect_minimap returns a rectangle or MinimapNotFound;
\* no step aborts the call.  (Every candidate box lies within the frame:
\* remap_from_yolo clamps it.)
C10_NeverAborts ==
    /\ \A i \in DOMAIN mmBbox : RoiInside(mmBbox[i], FrameW, FrameH)
    /\ mmResult.status # "aborted"

(***************************************************************************)
(* Claims about the border vote                                            *)
(***************************************************************************)
\* the thickness of the border in one column: the number of contiguous
\* pixels from the contour's top edge whose channels are all at or above
\* the threshold
BorderThickness(img, bound, col, thr) ==
    LET below == { r \in 0..(bound.height - 1) :
                    \E k \in 1..4 :
                        PixelAt(img, bound, bound.y + r, col)[k] < thr }
    IN  IF below = {} THEN bound.height
        ELSE CHOOSE r \in below : \A q \in below : r <= q

WithinBound(point, bound) ==
    /\ bound.x <= point.x /\ point.x <= bound.x + bound.width
    /\ bound.y <= point.y /\ point.y <= bound.y + bound.height

\* C12: to_minimap_coordinate returns the transformed point exactly when it
\* lies inside the playable bound, boundary included, and nothing otherwise;
\* so every point detect_mobs returns lies within the bound.
C12_TransformBoundary ==
        LET in == mob.in
            bboxes == MobBboxes(in.rows, ScreenSize)
        IN  /\ \A i \in DOMAIN bboxes :
                LET point == TransformPoint(bboxes[i], in.minimap, in.player,
                                            ScreenSize)
                    got == to_minimap_coordinate(bboxes[i], in.minimap,
                                                 in.bound, in.player, ScreenSize)
                IN  got = IF WithinBound(point, in.bound) THEN <<point>>
                          ELSE <<>>
            /\ \A k \in DOMAIN mob.out :
                \A j \in DOMAIN mob.out[k] :
                    WithinBound(mob.out[k][j], in.bound)

\* C12 witness: a call with two boxes, one transformed to a point on the
\* right edge of the bound and returned, the other to a point one pixel
\* outside the bound and discarded
C12_Witness ==
    /\ mob.out # <<>>
    /\ LET in == mob.in
           bboxes == MobBboxes(in.rows, ScreenSize)
           point(i) == TransformPoint(bboxes[i], in.minimap, in.player,
                                      ScreenSize)
       IN  /\ Len(bboxes) = 2
           /\ Len(mob.out[1]) = 1
           /\ point(1).x = in.bound.x + in.bound.width
           /\ mob.out[1][1] = point(1)
           /\ point(2).x = in.bound.x + in.bound.width + 1
           /\ WithinBound(Pt(in.bound.x, point(2).y), in.bound)

(***************************************************************************)
(* Claims about the text region extractor                                  *)
(***************************************************************************)
\* the labels that are neither too small nor too weak
KeptLabels(in) ==
    { i \in DOMAIN in.comps :
        in.comps[i].area >= 10 /\ in.comps[i].max_score >= 70 }

\* C13: a component of area < 10 or of maximum text score < 0.7 gives no
\* rectangle, the background label 0 gives none, every other component
\* gives exactly one, and the rectangles come in ascending label order.
C13_TextFiltering ==
    \A k \in DOMAIN txt.out :
        LET out == txt.out[k]
        IN  /\ Len(out.bboxes) = Len(out.labels)
            /\ Len(out.labels) = Cardinality(KeptLabels(txt.in))
            /\ { out.labels[j] : j \in DOMAIN out.labels } = KeptLabels(txt.in)
            /\ \A j \in DOMAIN out.labels : out.labels[j] >= 1
            /\ \A i, j \in DOMAIN out.labels :
                    i < j => out.labels[i] < out.labels[j]
            /\ \A j \in DOMAIN out.bboxes :
                    out.bboxes[j] = TextRect(txt.in.comps[out.labels[j]], txt.in)

\* C13 witness: three components, the first too weak, the second too small,
\* the third kept, and one rectangle returned
C13_Witness ==
    /\ txt.out # <<>>
    /\ Len(txt.in.comps) = 3
    /\ txt.in.comps[1].area >= 10 /\ txt.in.comps[1].max_score < 70
    /\ txt.in.comps[2].area < 10 /\ txt.in.comps[2].max_score >= 70
    /\ txt.out[1].labels = <<3>>
    /\ Len(txt.out[1].bboxes) = 1

(***************************************************************************)
(* Claims about the rune arrows                                            *)
(***************************************************************************)
ArrowOfClass(class) ==
    IF class = 0 THEN "Up" ELSE IF class = 1 THEN "Down"
    ELSE IF class = 2 THEN "Left" ELSE "Right"

\* the rows of confidence >= 0.8
ConfidentRows(rows) == { i \in DOMAIN rows : rows[i][5] >= 80 }

\* C14: the call fails exactly when the number of rows of confidence >= 0.8
\* is not 4; otherwise it returns the keys of those four rows, each the key
\* of its own row's class, in ascending order of the rows' left edge.
C14_RuneArrows ==
    \A k \in DOMAIN rune.out :
        LET out == rune.out[k]
            rows == rune.in
            kept == ConfidentRows(rows)
        IN  /\ ~out.ok <=> Cardinality(kept) # 4
            /\ out.ok =>
                \E f \in [1..4 -> kept] :
                    /\ \A i, j \in 1..4 : i # j => f[i] # f[j]
                    /\ \A i \in 1..3 : rows[f[i]][1] <= rows[f[i + 1]][1]
                    /\ \A i \in 1..4 : out.keys[i] = ArrowOfClass(rows[f[i]][6])

\* C14 witness: five rows, four of confidence exactly 0.8 given right to
\* left, returned left to right
C14_Witness ==
    /\ rune.out # <<>>
    /\ Len(rune.in) = 5
    /\ rune.in[1][5] < 80
    /\ \A i \in 2..4 : rune.in[i][1] > rune.in[i + 1][1]
    /\ rune.out[1].ok
    /\ \A i \in 1..4 : rune.out[1].keys[i] = ArrowOfClass(rune.in[6 - i][6])

(***************************************************************************)
(* Claims about the neural box remapping                                   *)
(***************************************************************************)
\* C15: for every prediction row and every pair of ratios the remapped
\* rectangle lies within the source image: x, y, width and height are not
\* negative, x + width <= source width and y + height <= source height.
C15_RemapWithinImage ==
    \A k \in DOMAIN rmp.out :
        LET r == rmp.out[k]
            size == rmp.in.size
        IN  /\ 0 <= r.x /\ 0 <= r.y
            /\ r.width >= 0 /\ r.height >= 0
            /\ r.x + r.width <= size.width
            /\ r.y + r.height <= size.height

\* C15 witness: x1 beyond the image and greater than x2, y1 negative, y2
\* infinite, and a rectangle of positive size reaching the right and bottom
\* edges of the image
C15_Witness ==
    /\ rmp.out # <<>>
    /\ rmp.in.pred[1] = Num(MaxRaw) /\ rmp.in.pred[3] = Num(2)
    /\ rmp.in.pred[2] = Num(0 - 3) /\ rmp.in.pred[4] = Inf(1)
    /\ rmp.in.w_ratio = 1500 /\ rmp.in.h_ratio = 500
    /\ rmp.out[1].x + rmp.out[1].width = rmp.in.size.width
    /\ rmp.out[1].height = rmp.in.size.height
    /\ rmp.out[1].width > 0

(***************************************************************************)
(* Claims about the health values                                          *)
(***************************************************************************)
\* the text exists and parses as an unsigned 32-bit integer
Parses(texts) == texts # <<>> /\ parse_u32(texts[1]) # <<>>

\* C16: the call returns (current, max) exactly when both texts exist and
\* parse as u32; then max is the parsed max and current the smaller of the
\* parsed current and the parsed max, so current <= max; otherwise the call
\* returns an error that carries no value.
C16_HealthValues ==
    \A k \in DOMAIN hp.out :
        LET out == hp.out[k]
            in == hp.in
        IN  /\ out.ok <=> (Parses(in.current) /\ Parses(in.max))
            /\ out.ok =>
                LET c == parse_u32(in.current[1])[1]
                    m == parse_u32(in.max[1])[1]
                IN  /\ out.max = m
                    /\ out.current = IF NumLess(c, m) THEN c ELSE m
                    /\ ~NumLess(out.max, out.current)
            /\ ~out.ok => DOMAIN out = {"ok", "err"}

\* C16 witness: the current text reads u32::MAX and the max text reads 7,
\* and the call returns (7, 7)
C16_Witness ==
    /\ hp.out # <<>>
    /\ hp.in.current = <<TextOf(U32_MAX)>>
    /\ hp.in.max = <<<<"7">>>>
    /\ hp.out[1].ok
    /\ hp.out[1].current = <<7>> /\ hp.out[1].max = <<7>>

(***************************************************************************)
(* Claims about the portals                                                *)
(***************************************************************************)
\* C17 (as claimed): every portal rectangle lies within the minimap image:
\* x >= 0, y >= 0, x + width <= minimap width, y + height <= minimap
\* height, for every above-threshold location of the score map.
C17_PortalWithinMinimap ==
    \A k \in DOMAIN portal.out :
        \A i \in DOMAIN portal.out[k] :
            LET r == portal.out[k][i]
            IN  /\ r.x >= 0 /\ r.y >= 0
                /\ r.x + r.width <= PortalW
                /\ r.y + r.height <= PortalH

(***************************************************************************)
(* Claims about the lazily constructed assets                              *)
(***************************************************************************)
\* C18: the asset's constructor runs at most once, by one caller at a time,
\* and exactly once as soon as any caller has the asset; a caller that has
\* the asset has the completely constructed value.
C18_ConstructedOnce ==
    /\ lzRuns <= 1
    /\ Cardinality({ c \in LzCallers : lzPc[c].at = "constructing" }) <= 1
    /\ \A c \in LzCallers :
            (lzPc[c].at = "using" \/ lzPc[c].calls > 0) =>
                /\ lzRuns = 1
                /\ lzState = [once |-> "complete", value |-> "built"]
                /\ lzPc[c].via = "built"
    /\ \A c \in LzCallers :
            lzPc[c].at = "waiting" => lzState.once # "incomplete"

\* C18 witness: every caller has used the asset once; one constructed it,
\* another blocked while it was being constructed
C18_Witness ==
    /\ lzRuns = 1
    /\ \A c \in LzCallers : lzPc[c].calls = 1 /\ lzPc[c].at = "idle"
    /\ \E c, d \in LzCallers :
            lzPc[c].path = "constructed" /\ lzPc[d].path = "waited"
    /\ lzState.once = "complete"

(***************************************************************************)
(* Claims about the text recognition                                       *)
(***************************************************************************)
\* C19: at no time are two recognitions in progress; a caller that is at or
\* between its recognitions holds the mutex; and the recognitions of two
\* extract_texts calls never interleave.
C19_RecognitionSerialized ==
    /\ Cardinality({ c \in OcCallers : ocPc[c].at = "recognizing" }) <= 1
    /\ \A c \in OcCallers :
            ocPc[c].at \in {"locked", "recognizing"} => ocMutex.holder = c
    /\ \A i, j, k \in DOMAIN ocLog :
            (/\ i < j /\ j < k
             /\ ocLog[i].caller = ocLog[k].caller
             /\ ocLog[i].call = ocLog[k].call)
                => /\ ocLog[j].caller = ocLog[i].caller
                   /\ ocLog[j].call = ocLog[i].call

\* C19 witness: one caller is in the recognition of its max bar while
\* another caller, which recognized its current bar in between, waits for
\* the mutex
C19_Witness ==
    \E c, d \in OcCallers :
        /\ c # d
        /\ ocPc[c].at = "recognizing" /\ ocPc[c].call = 2
        /\ ocPc[d].at = "call" /\ ocPc[d].call = 2
        /\ Len(ocLog) = 5
        /\ ocLog[3].caller = d /\ ocLog[1].caller = c

(***************************************************************************)
(* Claims about Array                                                      *)
(***************************************************************************)
\* the run so far consists of pushes only (by push or from_iter)
OnlyPushes == \A i \in DOMAIN arrHist : arrHist[i].op = "push"

Pushed == [i \in DOMAIN arrHist |-> arrHist[i].arg]

\* C20: after pushing k <= N values into an empty array, len is k, the
\* first k slots hold the values in insertion order, and iter() and
\* into_iter() yield exactly those k values in insertion order and then
\* end.
C20_InsertionOrder ==
    OnlyPushes =>
        LET k == Len(arrHist)
        IN  /\ k <= ArrayN
            /\ arrLen = k
            /\ arrIter.kind # "into_iter" =>
                    \A j \in 0..(ArrayN - 1) :
                        arrInner[j] = IF j < k THEN <<Pushed[j + 1]>> ELSE <<>>
            /\ arrIter.kind # "none" =>
                    /\ Len(arrIter.out) <= k
                    /\ arrIter.out = SubSeq(Pushed, 1, Len(arrIter.out))
                    /\ arrIter.ended => arrIter.out = Pushed

\* C20 witness: a full array of N values, not all the same, iterated to its
\* end by into_iter()
C20_Witness ==
    /\ OnlyPushes
    /\ Len(arrHist) = ArrayN
    /\ Pushed[1] # Pushed[ArrayN]
    /\ arrIter.kind = "into_iter"
    /\ arrIter.ended
    /\ arrIter.out = Pushed

\* the last operation was rejected by the assertion of push
PushRejected == ArrPanicked /\ arrHist[Len(arrHist)].by = "push"

\* C21: push on a full array (and from_iter at its N+1-th item) is rejected
\* by the assertion before any slot or the length is modified, and len
\* never exceeds N.
C21_OverflowRejected ==
    /\ [](arrLen <= ArrayN)
    /\ [][PushRejected' /\ ~PushRejected =>
            IF arrHist # <<>>
            THEN \* push on the array as it is
                 /\ arrLen = ArrayN
                 /\ UNCHANGED <<arrInner, arrLen>>
            ELSE \* from_iter: the first N items are in, the next is rejected
                 /\ arrLen' = ArrayN
                 /\ Len(arrHist') = ArrayN + 1
                 /\ \A j \in 0..(ArrayN - 1) :
                        arrInner'[j] = <<arrHist'[j + 1].arg>>]_vars

\* C21 witness: a push was rejected on a full array
C21_Witness ==
    /\ PushRejected
    /\ arrLen = ArrayN
    /\ Len(arrHist) = ArrayN + 1

(***************************************************************************)
(* Claims about detect_player_buff                                         *)
(***************************************************************************)
\* the cells of a potion score map that reach the threshold
BuffHits(result) == { c \in DOMAIN result : result[c] >= BUFF_THRESHOLD }

\* C22: for the two potion kinds the call reports the buff inactive with no
\* accepted match of the kind's template, active with two accepted matches,
\* and with exactly one accepted match active exactly when the single-shot
\* match of the other potion's template fails or scores strictly lower.
C22_PotionDisambiguation ==
    (buff.in.kind \in PotionKinds /\ buff.out # <<>>) =>
        LET out == buff.out[1]
            n == Len(out.matches)
            other == detect_template_single(BuffMatchInput(buff.in.other, 1))
        IN  /\ out.status = "returned"
            /\ n = 0 => ~out.active
            /\ n = 2 => out.active
            /\ n = 1 => (out.active <=>
                            (~other.ok \/ other.score < out.matches[1].score))

\* C22, where the multi-match returns: the same report
C22_PotionDisambiguationReturned ==
    (buff.in.kind \in PotionKinds /\ buff.out # <<>>
        /\ buff.out[1].status = "returned") =>
        LET out == buff.out[1]
            n == Len(out.matches)
            other == detect_template_single(BuffMatchInput(buff.in.other, 1))
        IN  /\ n = 0 => ~out.active
            /\ n = 2 => out.active
            /\ n = 1 => (out.active <=>
                            (~other.ok \/ other.score < out.matches[1].score))

(***************************************************************************)
(* Claims about the sampled columns and the tally of the border vote       *)
(***************************************************************************)
\* the columns of the middle 80% of a contour: floor(0.1 * w) trimmed off
\* each side
MiddleColumns(bound) ==
    LET trim == bound.width \div 10
    IN  { c \in bound.x..(bound.x + bound.width) :
            bound.x + trim <= c /\ c < bound.x + bound.width - trim }

\* C23: the sampled columns are exactly the columns of the middle 80% of
\* the contour's width; each lies inside the contour's horizontal extent
\* and inside the frame, for every contour width; and the count of a
\* sampled column is the number of contiguous qualifying pixels from the
\* contour's top edge.
C23_SampledColumns ==
    \A i \in DOMAIN mmVote :
        LET v == mmVote[i]
            bound == mmContour[1]
        IN  /\ v.cols = MiddleColumns(bound)
            /\ \A c \in v.cols :
                    /\ bound.x <= c /\ c < bound.x + bound.width
                    /\ 0 <= c /\ c < FrameW
            /\ mmResult.status # "aborted"
            /\ mmResult.status = "ok" =>
                    \A n \in DOMAIN v.tally :
                        v.tally[n] =
                            Cardinality({ c \in v.cols :
                                BorderThickness(v.img, bound, c, mmThr) = n })

\* C30: detect_minimap is deterministic: the voted thickness is determined
\* by the frame, the network output and the threshold, also when two
\* counts occur in the same greatest number of sampled columns.
C30_Deterministic ==
    \A i \in DOMAIN mmVote :
        mmResult.status = "ok" =>
            \A n \in DOMAIN mmVote[i].tally :
                (\A k \in DOMAIN mmVote[i].tally :
                    mmVote[i].tally[k] <= mmVote[i].tally[n])
                => mmVote[i].count = n

(***************************************************************************)
(* Claims about the local region of the text extractor                     *)
(***************************************************************************)
\* a bounding box expanded by e on each of its four sides and clamped to a
\* map of W x H
ExpandedClamped(box, e, W, H) ==
    RectFromPoints(Pt(Max2(0, box.x - e), Max2(0, box.y - e)),
                   Pt(Min2(W, box.x + box.width + e),
                      Min2(H, box.y + box.height + e)))

\* C24: the local region of interest of a kept component is its bounding
\* box expanded by s + 1 on each of the four sides and clamped to the
\* score map, the same on the left/top as on the right/bottom.
C24_LocalRegion ==
    \A k \in DOMAIN txt.out :
        \A j \in DOMAIN txt.out[k].rois :
            LET i == txt.out[k].labels[j]
                box == TextBox(txt.in, i)
                s == TextSize(txt.in.comps[i].area, box.width, box.height)
            IN  txt.out[k].rois[j] =
                    ExpandedClamped(box, s + 1, TextMapW, TextMapH)

(***************************************************************************)
(* Claims about CachedDetector                                             *)
(***************************************************************************)
\* C25: for one frame instance, over any interleaving of detection calls,
\* each derived representation (the grayscale frame, the buff-tray crop
\* used for buff detection) is computed at most once, and not at all if no
\* call needs it.
C25_ComputedAtMostOnce ==
    \A r \in CdReps :
        /\ cdRuns.runs[r] <= 1
        /\ cdRuns.runs[r] > 0 => r \in cdRuns.needed

\* C25 for the two cached representations only
C25_CellsComputedAtMostOnce ==
    \A r \in CdCells :
        /\ cdRuns.runs[r] <= 1
        /\ cdRuns.runs[r] > 0 => r \in cdRuns.needed

(***************************************************************************)
(* Claims about the erase step of the multi-match                          *)
(***************************************************************************)
\* C26: in detect_template_multiple with max_matches > 1, for every
\* accepted match and any offset, the rectangle whose score-map cells are
\* zeroed is the template-sized footprint at the match's own location and
\* lies entirely within the score map, so the call completes and returns
\* its list.
C26_EraseInsideScoreMap ==
    \A i \in DOMAIN tmOut :
        tmIn.max_matches > 1 =>
            LET out == tmOut[i]
                accepted == FilterOk(out.list)
            IN  /\ out.status = "returned"
                /\ \A j \in DOMAIN out.erased :
                        RoiInside(out.erased[j], tmIn.mw, tmIn.mh)
                /\ \A j \in DOMAIN out.erased :
                        j <= Len(accepted) =>
                            out.erased[j] =
                                Rect(accepted[j].rect.x - tmIn.offset.x,
                                     accepted[j].rect.y - tmIn.offset.y,
                                     tmIn.tw, tmIn.th)

(***************************************************************************)
(* Claims about the slots of Array                                         *)
(***************************************************************************)
\* slot j is occupied exactly when j < len, and len <= N
SlotInvariant(arr) ==
    /\ arr.len <= ArrayN
    /\ \A j \in 0..(ArrayN - 1) : (arr.inner[j] # <<>>) <=> (j < arr.len)

\* the values stored in the slots from slot j on, in slot order
RECURSIVE StoredFrom(_, _)
StoredFrom(inner, j) ==
    IF j >= ArrayN THEN <<>> ELSE inner[j] \o StoredFrom(inner, j + 1)

Stored(arr) == StoredFrom(arr.inner, 0)

\* the array of the run, while it has not been moved into an iterator
TheArray == [inner |-> arrInner, len |-> arrLen]

Without(s, i) == SubSeq(s, 1, i) \o SubSeq(s, i + 2, Len(s))

\* the last operation of the run was remove, accepted or rejected
LastRemove ==
    /\ arrHist # <<>>
    /\ \/ arrHist[Len(arrHist)].op = "remove"
       \/ /\ arrHist[Len(arrHist)].op = "panic"
          /\ arrHist[Len(arrHist)].by = "remove"

\* C28: for index < len, remove(index) deletes exactly the element at that
\* index, keeps the others in their order and decreases len by exactly 1,
\* also for the last slot of a full array; for index >= len the call is
\* rejected by the assertion and the array is unchanged.
C28_Remove ==
    [][(Len(arrHist') = Len(arrHist) + 1 /\ LastRemove') =>
        LET index == arrHist'[Len(arrHist')].arg
            before == [inner |-> arrInner, len |-> arrLen]
            after == [inner |-> arrInner', len |-> arrLen']
        IN  IF index < arrLen
            THEN /\ arrHist'[Len(arrHist')].op = "remove"
                 /\ after.len = before.len - 1
                 /\ Stored(after) = Without(Stored(before), index)
                 /\ SlotInvariant(after)
            ELSE /\ arrHist'[Len(arrHist')].op = "panic"
                 /\ after = before]_vars

\* C28 witness: the last slot N-1 of a full array was removed
C28_Witness ==
    /\ arrHist # <<>>
    /\ arrHist[Len(arrHist)] = [op |-> "remove", arg |-> ArrayN - 1]
    /\ arrLen = ArrayN - 1
    /\ arrIter.kind = "none"

(***************************************************************************)
(* Claims about the recognizer's mutex after an aborted call               *)
(***************************************************************************)
\* C29: after an extract_texts call aborts while it holds the recognizer
\* mutex, every later extract_texts call can still acquire the mutex and
\* complete: a caller that gets past TEXT_RECOGNITION_MODEL.lock() holds
\* the mutex, whatever happened to earlier calls.
C29_LockRecovery ==
    [][\A c \in OcCallers :
        (ocPc[c].at = "call" /\ ocPc'[c].at # "call")
            => (ocPc'[c].at = "locked" /\ ocMutex'.holder = c)]_vars

====
